---- MODULE Spec2Model ----
(***************************************************************************)
(* Model of the AHK v2 script feed pipeline:                               *)
(*   - ScriptUpdateManager (browser store: manifest load, localStorage     *)
(*     cache, GitHub fetch, merge, update)                                 *)
(*   - scripts/build.js (manifest build tool: fetch, merge, save)          *)
(*   - scripts/update-feed.js (feed updater: multi-query fetch, dedup,     *)
(*     sort, truncate, write)                                              *)
(***************************************************************************)
EXTENDS Integers, Sequences, FiniteSets, TLC

VARIABLES
    \* --- merge functions applied to drawn inputs -------------------------
    base,        \* the collection a merge starts from
    incoming,    \* the batch handed to the merge
    impl,        \* which mergeScripts is applied: "store" or "build"
    passes,      \* the collection after each successive merge of `incoming`
    \* --- ScriptUpdateManager (the browser store) -------------------------
    scripts,      \* this.scripts
    lastUpdate,   \* this.lastUpdate: <<>> for null, <<t>> for the time t
    cache,        \* the localStorage entry under cacheKey
    now,          \* the clock (Date.now()), in ticks
    pc,           \* lifecycle of the store
    lastOp,       \* what the last store operation did and returned
    updateCallbacks,  \* this.updateCallbacks, in registration order
    calls,        \* the callback invocations of the update() under way or last run
    \* --- scripts/update-feed.js (the feed updater) -----------------------
    feedFile,     \* data/ahk-scripts-feed.json on disk
    fpc,          \* position inside updateFeed()
    qIdx,         \* index of the query of CONFIG.queries being served
    allRepos,     \* the local allRepos of updateFeed()
    lastRequest,  \* how the last searchRepos() call ended
    inFlight,     \* the queries whose search request awaits its response
    qLog,         \* per query served in this run: how its request ended
    feedExit,     \* exit status of the last run of the feed updater, -1 while none ended
    \* --- scripts/build.js (the manifest build tool, run with --fetch) ----
    manifestDisk, \* scripts/ahk-scripts.json on disk
    manifest,     \* the local `manifest` of main()
    bpc,          \* position inside main()
    runNo,        \* how many times the tool was started (its clock)
    buildRun,     \* what the last run did: saveManifest's result, exit status,
                  \* the level the fetch logged at and what its request met
    \* --- the normalizers, applied to one search response -----------------
    rawResponse,  \* the `items` of a search response, as GitHub sent them
    normImpl,     \* whose normalizer is applied: "store", "build" or "feed"
    normalized,   \* what came out: the records, or that the mapping threw
    \* --- the query methods of ScriptUpdateManager ------------------------
    query,        \* the call made: the method and its argument
    answer,       \* what the call returned
    \* --- ScriptFeedUI (the feed controller) ------------------------------
    currentPage,      \* this.currentPage
    currentFilter,    \* this.currentFilter
    rendered,         \* what the last render() put into the container
    refreshDisabled,  \* the disabled flag of the refresh button in the container
    pendingUpdates,   \* how many update() calls await their fetch
    searchTimers,     \* the debounce timers of the search input that have not fired
    modal,            \* whether a code modal has been put into the document
    \* --- sessions of the store and overlapping update() calls ------------
    overlap,      \* two update() calls on one store: where each is, what it fetched
    session       \* which store performed the last loadFromCache, and on what

mergeVars == <<base, incoming, impl, passes>>

storeVars == <<scripts, lastUpdate, cache, now, pc, lastOp, updateCallbacks, calls>>

feedVars == <<feedFile, fpc, qIdx, allRepos, lastRequest, inFlight, qLog, feedExit>>

buildVars == <<manifestDisk, manifest, bpc, runNo, buildRun>>

normVars == <<rawResponse, normImpl, normalized>>

queryVars == <<query, answer>>

uiVars == <<currentPage, currentFilter, rendered, refreshDisabled, pendingUpdates,
            searchTimers, modal>>

runVars == <<overlap, session>>

vars == <<mergeVars, storeVars, feedVars, buildVars, normVars, queryVars, uiVars, runVars>>

(***************************************************************************)
(* Bounds of the model                                                     *)
(***************************************************************************)
MaxBatch == 2      \* longest batch handed to a merge
MaxPasses == 2     \* how many times the same batch is merged again
MaxManifest == 1   \* most records in the manifest the store loads
MaxCached == 1     \* most records in the cache entry left by an earlier session
MaxFetch == 2      \* most repositories in one GitHub search response
MaxClock == 2      \* last tick of the clock
NumQueries == 2    \* how many search queries CONFIG.queries holds
MaxItems == 1      \* most repositories in one search response of the feed updater
MaxCallbacks == 2  \* most callbacks registered through onUpdate
MaxRuns == 2        \* how many times the build tool is run
MaxNotifyFetch == 1  \* most repositories in a search response when subscribers are studied
MaxTopics == 7     \* most topics GitHub lists for one repository
MaxSearched == 2   \* most records in a collection that is searched
MaxQueryLen == 2   \* most characters in a search query
MaxRecent == 3     \* most records in a collection sorted by recency
MaxLimit == 4      \* largest limit passed to getRecent
MaxCounted == 3    \* most records in a collection whose categories are counted
MaxTagged == 2     \* most records in a collection whose tags are counted

(***************************************************************************)
(* Records.  lastModified is an ISO-8601 string; it is kept as its parts   *)
(* (day of January 2024, hour, zone suffix) so that both the JavaScript    *)
(* string order and the instant it denotes can be computed from it.        *)
(* NoStamp is a record without a lastModified field (undefined).           *)
(***************************************************************************)
Ids == {"a", "b"}

NoStamp == [day |-> 0, hour |-> 0, zone |-> "undefined"]

StampEarlyZ == [day |-> 1, hour |-> 0, zone |-> "Z"]          \* 2024-01-01T00:00:00Z

StampOffset == [day |-> 1, hour |-> 23, zone |-> "-05:00"]    \* 2024-01-01T23:00:00-05:00

StampFraction == [day |-> 2, hour |-> 1, zone |-> ".000Z"]    \* 2024-01-02T01:00:00.000Z

StampLateZ == [day |-> 2, hour |-> 1, zone |-> "Z"]           \* 2024-01-02T01:00:00Z

StampAhead == [day |-> 2, hour |-> 3, zone |-> "+05:00"]      \* 2024-01-02T03:00:00+05:00

StampNoonZ == [day |-> 1, hour |-> 12, zone |-> "Z"]          \* 2024-01-01T12:00:00Z

Stamps == {StampEarlyZ, StampOffset, StampFraction, StampLateZ, NoStamp}

\* tags: the array, or left out of the record
TagArray(l) == [type |-> "array", value |-> l]

NoTags == [type |-> "undefined", value |-> <<>>]

Rec(i, s, t) == [id |-> i, lastModified |-> s, title |-> t]

RecordsTitled(t) == { Rec(i, s, t) : i \in Ids, s \in Stamps }

\* Code point order of the character that follows "hh:00:00" in the string:
\* '+' (43) < '-' (45) < '.' (46) < 'Z' (90).
ZoneRank(z) == CASE z = "+05:00" -> 0
                 [] z = "-05:00" -> 1
                 [] z = ".000Z"  -> 2
                 [] z = "Z"      -> 3
                 [] OTHER        -> 4

\* new Date(s): the instant in hours since 2024-01-01T00:00Z.
\* An undefined lastModified parses to an Invalid Date (NaN).
IsNaN(s) == s.zone = "undefined"

DateValue(s) ==
    s.day * 24 + s.hour + (CASE s.zone = "-05:00" -> 5 [] s.zone = "+05:00" -> -5 [] OTHER -> 0)

\* JavaScript a > b on two strings: code unit order.  With an undefined
\* operand both sides are converted to numbers, NaN, and the result is false.
StringGreater(a, b) ==
    /\ ~IsNaN(a) /\ ~IsNaN(b)
    /\ \/ a.day > b.day
       \/ a.day = b.day /\ a.hour > b.hour
       \/ a.day = b.day /\ a.hour = b.hour /\ ZoneRank(a.zone) > ZoneRank(b.zone)

\* JavaScript new Date(a) > new Date(b): false when either is Invalid Date.
DateGreater(a, b) ==
    /\ ~IsNaN(a) /\ ~IsNaN(b)
    /\ DateValue(a) > DateValue(b)

(***************************************************************************)
(* Helpers on sequences                                                    *)
(***************************************************************************)
IdsOf(s) == { s[i].id : i \in DOMAIN s }

UniqueIds(s) == \A i, j \in DOMAIN s : s[i].id = s[j].id => i = j

\* Array.prototype.findIndex(s => s.id === id), 1-based; 0 when absent.
FindIndex(s, id) ==
    IF \E i \in DOMAIN s : s[i].id = id
    THEN CHOOSE i \in DOMAIN s : s[i].id = id /\ \A j \in 1..(i - 1) : s[j].id # id
    ELSE 0

SeqsUpTo(S, n) == UNION { [1..k -> S] : k \in 0..n }

(***************************************************************************)
(* ScriptUpdateManager.mergeScripts: one iteration of the for loop, then   *)
(* the loop over newScripts from position k.                               *)
(***************************************************************************)
\* Variants of the loop body with one plausible slip each: the membership test
\* always failing, the id of a pushed record not remembered, a replacement
\* moved to the end instead of made in place.
StoreMergeStepNoCheck(arr, existingIds, script) ==
    [scripts |-> Append(arr, script), ids |-> existingIds \cup {script.id}]

StoreMergeStepNoAdd(arr, existingIds, script) ==
    IF script.id \notin existingIds
    THEN [scripts |-> Append(arr, script), ids |-> existingIds]
    ELSE LET index == FindIndex(arr, script.id) IN
         IF index >= 1 /\ StringGreater(script.lastModified, arr[index].lastModified)
         THEN [scripts |-> [arr EXCEPT ![index] = script], ids |-> existingIds]
         ELSE [scripts |-> arr, ids |-> existingIds]

StoreMergeStepMoveToEnd(arr, existingIds, script) ==
    IF script.id \notin existingIds
    THEN [scripts |-> Append(arr, script), ids |-> existingIds \cup {script.id}]
    ELSE LET index == FindIndex(arr, script.id) IN
         IF index >= 1 /\ StringGreater(script.lastModified, arr[index].lastModified)
         THEN [scripts |-> Append(SelectSeq(arr, LAMBDA r : r.id # script.id), script),
               ids |-> existingIds]
         ELSE [scripts |-> arr, ids |-> existingIds]

StoreMergeStep(arr, existingIds, script) ==
    IF script.id \notin existingIds
    THEN [scripts |-> Append(arr, script), ids |-> existingIds \cup {script.id}]
    ELSE LET index == FindIndex(arr, script.id) IN
         IF index >= 1 /\ StringGreater(script.lastModified, arr[index].lastModified)
         THEN [scripts |-> [arr EXCEPT ![index] = script], ids |-> existingIds]
         ELSE [scripts |-> arr, ids |-> existingIds]

RECURSIVE StoreMergeLoop(_, _, _, _)
StoreMergeLoop(arr, existingIds, newScripts, k) ==
    IF k > Len(newScripts) THEN arr
    ELSE LET st == StoreMergeStep(arr, existingIds, newScripts[k]) IN
         StoreMergeLoop(st.scripts, st.ids, newScripts, k + 1)

StoreMergeScripts(arr, newScripts) ==
    StoreMergeLoop(arr, IdsOf(arr), newScripts, 1)

(***************************************************************************)
(* build.js mergeScripts(manifest, newScripts), on manifest.scripts.       *)
(***************************************************************************)
BuildMergeStep(arr, existingIds, script) ==
    IF script.id \notin existingIds
    THEN [scripts |-> Append(arr, script), ids |-> existingIds \cup {script.id}]
    ELSE LET index == FindIndex(arr, script.id) IN
         IF index >= 1 /\ DateGreater(script.lastModified, arr[index].lastModified)
         THEN [scripts |-> [arr EXCEPT ![index] = script], ids |-> existingIds]
         ELSE [scripts |-> arr, ids |-> existingIds]

RECURSIVE BuildMergeLoop(_, _, _, _)
BuildMergeLoop(arr, existingIds, newScripts, k) ==
    IF k > Len(newScripts) THEN arr
    ELSE LET st == BuildMergeStep(arr, existingIds, newScripts[k]) IN
         BuildMergeLoop(st.scripts, st.ids, newScripts, k + 1)

BuildMergeScripts(arr, newScripts) ==
    BuildMergeLoop(arr, IdsOf(arr), newScripts, 1)

(***************************************************************************)
(* SpecMerge: the two mergeScripts functions applied to drawn inputs.      *)
(* The base is a Collection (ids unique); the batch is any sequence of     *)
(* records, repeated ids included.  Base records are titled "old" and      *)
(* batch records "new", so a replacement is visible in the result.         *)
(***************************************************************************)
Collections(R) == { s \in SeqsUpTo(R, Cardinality(Ids)) : UniqueIds(s) }

Batches(R) == SeqsUpTo(R, MaxBatch)

CurrentOf(b, p) == IF p = <<>> THEN b ELSE p[Len(p)]

IdleMerge ==
    /\ base = <<>>
    /\ incoming = <<>>
    /\ impl = "none"
    /\ passes = <<>>

IdleStore ==
    /\ scripts = <<>>
    /\ lastUpdate = <<>>
    /\ cache = [present |-> FALSE, valid |-> FALSE, scripts |-> <<>>, timestamp |-> 0]
    /\ now = 0
    /\ pc = "off"
    /\ lastOp = [op |-> "none", result |-> FALSE, repeated |-> FALSE, signal |-> "none",
                 raised |-> FALSE]
    /\ updateCallbacks = <<>>
    /\ calls = <<>>

IdleFeed ==
    /\ feedFile = [exists |-> FALSE, repositories |-> <<>>, total_count |-> 0]
    /\ fpc = "off"
    /\ qIdx = 0
    /\ allRepos = <<>>
    /\ lastRequest = [kind |-> "none", raised |-> FALSE, signal |-> "none", count |-> 0]
    /\ inFlight = {}
    /\ qLog = <<>>
    /\ feedExit = -1

IdleNorm ==
    /\ rawResponse = <<>>
    /\ normImpl = "none"
    /\ normalized = [done |-> FALSE, raised |-> FALSE, records |-> <<>>]

IdleQuery ==
    /\ query = [op |-> "none", text |-> <<>>, limit |-> 0]
    /\ answer = [done |-> FALSE, returned |-> <<>>, before |-> <<>>]

\* this.currentFilter = null
NoFilter == [type |-> "none", value |-> <<>>]

\* The container before the first render().
NothingRendered ==
    [count |-> 0, items |-> <<>>, categories |-> <<>>,
     pagination |-> [shown |-> FALSE, prevDisabled |-> FALSE, nextDisabled |-> FALSE]]

IdleUI ==
    /\ currentPage = 1
    /\ currentFilter = NoFilter
    /\ rendered = NothingRendered
    /\ refreshDisabled = FALSE
    /\ pendingUpdates = 0
    /\ searchTimers = [current |-> <<>>, stale |-> {}]
    /\ modal = FALSE

IdleRuns ==
    /\ overlap = [before |-> <<>>, call |-> <<>>, both |-> FALSE]
    /\ session = [store |-> "none", saved |-> <<>>, reloaded |-> FALSE]

IdleBuild ==
    /\ manifestDisk = [status |-> "missing", scripts |-> <<>>, lastUpdated |-> <<>>]
    /\ manifest = [scripts |-> <<>>, lastUpdated |-> <<>>]
    /\ bpc = "off"
    /\ runNo = 0
    /\ buildRun = [saved |-> "none", exit |-> -1, signal |-> "none", kind |-> "none"]

InitMerge ==
    /\ IdleUI
    /\ IdleRuns
    /\ IdleStore
    /\ IdleFeed
    /\ IdleBuild
    /\ IdleNorm
    /\ IdleQuery
    /\ base \in Collections(RecordsTitled("old"))
    /\ incoming \in Batches(RecordsTitled("new"))
    /\ impl \in {"store", "build"}
    /\ passes = <<>>

ApplyStoreMerge ==
    /\ impl = "store"
    /\ Len(passes) < MaxPasses
    /\ passes' = Append(passes, StoreMergeScripts(CurrentOf(base, passes), incoming))
    /\ UNCHANGED <<base, incoming, impl>>
    /\ UNCHANGED <<storeVars, feedVars, buildVars, normVars, queryVars, uiVars, runVars>>

ApplyBuildMerge ==
    /\ impl = "build"
    /\ Len(passes) < MaxPasses
    /\ passes' = Append(passes, BuildMergeScripts(CurrentOf(base, passes), incoming))
    /\ UNCHANGED <<base, incoming, impl>>
    /\ UNCHANGED <<storeVars, feedVars, buildVars, normVars, queryVars, uiVars, runVars>>

NextMerge == ApplyStoreMerge \/ ApplyBuildMerge

SpecMerge == InitMerge /\ [][NextMerge]_vars

(***************************************************************************)
(* Spec: the ScriptUpdateManager store.                                    *)
(*   construct -> init() [loadFromManifest; loadFromCache] -> update()*    *)
(* The manifest is a Collection written by the build tool or curated by    *)
(* hand (ids unique; curated stamps may carry a zone offset); the cache    *)
(* entry was written by saveToCache in an earlier session; GitHub answers  *)
(* with updated_at in the "...Z" form.                                     *)
(***************************************************************************)
cacheTTL == 2      \* config.cacheTTL, in ticks of the clock

ManifestRecords == { Rec(i, s, "old") : i \in Ids, s \in {StampEarlyZ, StampOffset} }

CachedRecords == { Rec(i, StampLateZ, "old") : i \in Ids }

FetchedRecords == { Rec(i, s, "new") : i \in Ids, s \in {StampEarlyZ, StampLateZ} }

ManifestFiles ==
    { [status |-> "ok", scripts |-> c, lastUpdated |-> 0] :
        c \in { m \in SeqsUpTo(ManifestRecords, MaxManifest) : UniqueIds(m) } }
    \cup { [status |-> k, scripts |-> <<>>, lastUpdated |-> 0] : k \in {"missing", "malformed"} }

\* The localStorage entry a session starts with: written by saveToCache in an
\* earlier session, absent, or present but not parsable as JSON.
InitialCaches ==
    { [present |-> TRUE, valid |-> TRUE, scripts |-> c, timestamp |-> 0] :
        c \in { m \in SeqsUpTo(CachedRecords, MaxCached) : UniqueIds(m) } }
    \cup { [present |-> FALSE, valid |-> FALSE, scripts |-> <<>>, timestamp |-> 0],
           [present |-> TRUE, valid |-> FALSE, scripts |-> <<>>, timestamp |-> 0] }

\* What the search request of fetchFromGitHub meets.
StoreFetchOutcomes ==
    { [kind |-> "ok", items |-> b] : b \in SeqsUpTo(FetchedRecords, MaxFetch) }
    \cup { [kind |-> k, items |-> <<>>] :
            k \in {"disabled", "rateLimit", "httpError", "networkError", "malformedBody"} }

HasRepeatedId(s) == ~UniqueIds(s)

\* What a callback registered through onUpdate is: `f` returns, `g` throws.
Callbacks == { [id |-> "f", throws |-> FALSE], [id |-> "g", throws |-> TRUE] }

\* callback(this.scripts, this.lastUpdate), with the cache entry as it is
\* while the callback runs.
CallOf(callback, s, lu, c) ==
    [cb |-> callback.id, scripts |-> s, lastUpdate |-> lu, cacheAtCall |-> c]

\* Variants with one plausible slip each: a fetch without its try/catch, a
\* cache accepted at an age equal to the TTL, a manifest load without its
\* try/catch, a notification loop without its try/catch, a notification loop
\* left after its first callback, and an update that notifies before it merges
\* and saves.
StoreFetchFromGitHubNoCatch(o) ==
    CASE o.kind = "disabled"  -> [result |-> <<>>, signal |-> "none", raised |-> FALSE]
      [] o.kind = "rateLimit" -> [result |-> <<>>, signal |-> "warn", raised |-> FALSE]
      [] o.kind = "ok"        -> [result |-> o.items, signal |-> "none", raised |-> FALSE]
      [] OTHER                -> [result |-> <<>>, signal |-> "none", raised |-> TRUE]

CacheIsFreshInclusive(c, t) == c.present /\ c.valid /\ t - c.timestamp <= cacheTTL

ReadManifestNoCatch(manifestFile, s, lu) ==
    IF manifestFile.status = "ok"
    THEN [scripts |-> manifestFile.scripts, lastUpdate |-> <<manifestFile.lastUpdated>>,
          result |-> TRUE, signal |-> "none", raised |-> FALSE]
    ELSE [scripts |-> s, lastUpdate |-> lu,
          result |-> FALSE, signal |-> "none", raised |-> TRUE]

NotifyUpdateNoCatch(cbs, s, lu, c) ==
    LET throwers == { k \in DOMAIN cbs : cbs[k].throws }
        last == IF throwers = {} THEN Len(cbs)
                ELSE CHOOSE k \in throwers : \A j \in throwers : k <= j
    IN [calls |-> [k \in 1..last |-> CallOf(cbs[k], s, lu, c)],
        raised |-> throwers # {}]

NotifyUpdateFirstOnly(cbs, s, lu, c) ==
    [calls |-> [k \in 1..(IF Len(cbs) > 0 THEN 1 ELSE 0) |-> CallOf(cbs[k], s, lu, c)],
     raised |-> FALSE]

\* ScriptUpdateManager.fetchFromGitHub: the array it resolves to, what it
\* logs, and whether it rejects.
StoreFetchFromGitHub(o) ==
    CASE o.kind = "disabled"  -> [result |-> <<>>, signal |-> "none", raised |-> FALSE]
      [] o.kind = "rateLimit" -> [result |-> <<>>, signal |-> "warn", raised |-> FALSE]
      [] o.kind = "ok"        -> [result |-> o.items, signal |-> "none", raised |-> FALSE]
      [] OTHER                -> [result |-> <<>>, signal |-> "error", raised |-> FALSE]

\* loadFromCache: an entry is there, it parses, and its age is below the TTL.
CacheIsFresh(c, t) == c.present /\ c.valid /\ t - c.timestamp < cacheTTL

\* loadFromManifest on the store holding s and lu: the fields it leaves, what
\* it returns and logs, and whether it throws.
ReadManifest(manifestFile, s, lu) ==
    IF manifestFile.status = "ok"
    THEN [scripts |-> manifestFile.scripts, lastUpdate |-> <<manifestFile.lastUpdated>>,
          result |-> TRUE, signal |-> "none", raised |-> FALSE]
    ELSE [scripts |-> s, lastUpdate |-> lu,
          result |-> FALSE, signal |-> "error", raised |-> FALSE]

\* A property whose value is undefined: a record without lastModified, or
\* without tags.
IsUndefined(f, v) ==
    CASE f = "lastModified" -> IsNaN(v)
      [] f = "tags"         -> v.type = "undefined"
      [] OTHER              -> FALSE

\* What reading the property f of an object that does not have it gives.
UndefinedValue(f) == IF f = "tags" THEN NoTags ELSE NoStamp

\* The properties the code reads that a record may lack: lastModified, and
\* tags on the records that are queried.
FieldsRead(obj) ==
    DOMAIN obj \cup (IF "category" \in DOMAIN obj THEN {"lastModified", "tags"}
                     ELSE {"lastModified"})

\* A replacer that lets only the named properties through.
JsonStringifyListed(s) ==
    [k \in DOMAIN s |-> [f \in {g \in DOMAIN s[k] : g \in {"id", "title"}} |-> s[k][f]]]

\* JSON.stringify on the array of records: a property whose value is
\* undefined is left out of the text, every other one is written with its
\* value (strings, numbers and arrays of strings), in array order.
JsonStringify(s) ==
    [k \in DOMAIN s |->
        [f \in {g \in DOMAIN s[k] : ~IsUndefined(g, s[k][g])} |-> s[k][f]]]

\* JSON.parse on such a text: the objects with the properties written; one
\* that was left out reads as undefined.
JsonParse(text) ==
    [k \in DOMAIN text |->
        [f \in FieldsRead(text[k]) |->
            IF f \in DOMAIN text[k] THEN text[k][f] ELSE UndefinedValue(f)]]

\* saveToCache: the entry afterwards, kept as JSON.parse reads it back;
\* setItem may throw (quota), which is caught.
SaveToCache(c, s, t, saved) ==
    IF saved
    THEN [present |-> TRUE, valid |-> TRUE, scripts |-> JsonParse(JsonStringify(s)),
          timestamp |-> t]
    ELSE c

\* notifyUpdate: every callback is called in registration order, a throw is
\* caught and logged.
NotifyUpdate(cbs, s, lu, c) ==
    [calls |-> [k \in DOMAIN cbs |-> CallOf(cbs[k], s, lu, c)], raised |-> FALSE]

UpdateStepsNotifyFirst(s, lu, c, cbs, fetched, saved, t) ==
    IF fetched.raised
    THEN [scripts |-> s, lastUpdate |-> lu, cache |-> c, calls |-> <<>>, raised |-> TRUE]
    ELSE LET notified == NotifyUpdate(cbs, s, <<t>>, c)
             merged == IF Len(fetched.result) > 0
                       THEN StoreMergeScripts(s, fetched.result)
                       ELSE s
         IN [scripts |-> merged, lastUpdate |-> <<t>>,
             cache |-> SaveToCache(c, merged, t, saved),
             calls |-> notified.calls, raised |-> notified.raised]

\* update() from the point where the awaited fetch has settled: merge when the
\* batch is not empty, set lastUpdate, saveToCache, notifyUpdate, in this
\* order.  A rejected fetch would leave update() at the await.
UpdateSteps(s, lu, c, cbs, fetched, saved, t) ==
    IF fetched.raised
    THEN [scripts |-> s, lastUpdate |-> lu, cache |-> c, calls |-> <<>>, raised |-> TRUE]
    ELSE LET merged == IF Len(fetched.result) > 0
                       THEN StoreMergeScripts(s, fetched.result)
                       ELSE s
             stamp == <<t>>
             stored == SaveToCache(c, merged, t, saved)
             notified == NotifyUpdate(cbs, merged, stamp, stored)
         IN [scripts |-> merged, lastUpdate |-> stamp, cache |-> stored,
             calls |-> notified.calls, raised |-> notified.raised]

InitStore ==
    /\ IdleUI
    /\ IdleRuns
    /\ IdleMerge
    /\ IdleFeed
    /\ IdleBuild
    /\ IdleNorm
    /\ IdleQuery
    /\ scripts = <<>>
    /\ lastUpdate = <<>>
    /\ cache \in InitialCaches
    /\ now = 1
    /\ pc = "new"
    /\ lastOp = [op |-> "none", result |-> FALSE, repeated |-> FALSE, signal |-> "none",
                 raised |-> FALSE]
    /\ updateCallbacks = <<>>
    /\ calls = <<>>

Tick ==
    /\ pc # "off"
    /\ now < MaxClock
    /\ now' = now + 1
    /\ UNCHANGED <<scripts, lastUpdate, cache, pc, lastOp, updateCallbacks, calls>>
    /\ UNCHANGED <<mergeVars, feedVars, buildVars, normVars, queryVars, uiVars, runVars>>

\* onUpdate(callback)
OnUpdate ==
    /\ pc \in {"new", "loaded", "updating"}
    /\ Len(updateCallbacks) < MaxCallbacks
    /\ \E callback \in Callbacks : updateCallbacks' = Append(updateCallbacks, callback)
    /\ UNCHANGED <<scripts, lastUpdate, cache, now, pc, lastOp, calls>>
    /\ UNCHANGED <<mergeVars, feedVars, buildVars, normVars, queryVars, uiVars, runVars>>

\* init(), first half: await this.loadFromManifest().  A throw would leave
\* init() there.
LoadFromManifest ==
    /\ pc = "new"
    /\ \E manifestFile \in ManifestFiles :
         LET read == ReadManifest(manifestFile, scripts, lastUpdate) IN
         /\ scripts' = read.scripts
         /\ lastUpdate' = read.lastUpdate
         /\ lastOp' = [op |-> "loadFromManifest", result |-> read.result,
                       repeated |-> FALSE, signal |-> read.signal, raised |-> read.raised]
         /\ pc' = IF read.raised THEN "failed" ELSE "manifestDone"
    /\ UNCHANGED <<cache, now, updateCallbacks, calls>>
    /\ UNCHANGED <<mergeVars, feedVars, buildVars, normVars, queryVars, uiVars, runVars>>

\* init(), second half: this.loadFromCache().
LoadFromCache ==
    /\ pc = "manifestDone"
    /\ pc' = "loaded"
    /\ IF CacheIsFresh(cache, now)
       THEN /\ scripts' = StoreMergeScripts(scripts, cache.scripts)
            /\ lastOp' = [op |-> "loadFromCache", result |-> TRUE,
                          repeated |-> HasRepeatedId(cache.scripts), signal |-> "none",
                          raised |-> FALSE]
       ELSE /\ UNCHANGED scripts
            /\ lastOp' = [op |-> "loadFromCache", result |-> FALSE, repeated |-> FALSE,
                          signal |-> IF cache.present /\ ~cache.valid THEN "error" ELSE "none",
                          raised |-> FALSE]
    /\ UNCHANGED <<lastUpdate, cache, now, updateCallbacks, calls>>
    /\ UNCHANGED <<mergeVars, feedVars, buildVars, normVars, queryVars, uiVars, runVars>>

\* update() up to `await this.fetchFromGitHub()`: nothing of this update has
\* been returned or notified yet.
UpdateStart ==
    /\ pc = "loaded"
    /\ pc' = "updating"
    /\ lastOp' = [op |-> "updateStarted", result |-> FALSE, repeated |-> FALSE,
                  signal |-> "none", raised |-> FALSE]
    /\ calls' = <<>>
    /\ UNCHANGED <<scripts, lastUpdate, cache, now, updateCallbacks>>
    /\ UNCHANGED <<mergeVars, feedVars, buildVars, normVars, queryVars, uiVars, runVars>>

\* The awaited fetch settles, in one of the ways of `outcomes`, and update()
\* runs to its end.
UpdateFinishOn(outcomes) ==
    /\ pc = "updating"
    /\ \E o \in outcomes, saved \in BOOLEAN :
         \E fetched \in {StoreFetchFromGitHub(o)} :
         \E done \in {UpdateSteps(scripts, lastUpdate, cache, updateCallbacks,
                                  fetched, saved, now)} :
            /\ scripts' = done.scripts
            /\ lastUpdate' = done.lastUpdate
            /\ cache' = done.cache
            /\ calls' = done.calls
            /\ lastOp' = [op |-> "update", result |-> ~done.raised,
                          repeated |-> HasRepeatedId(fetched.result),
                          signal |-> fetched.signal, raised |-> done.raised]
    /\ pc' = "loaded"
    /\ UNCHANGED <<now, updateCallbacks>>
    /\ UNCHANGED <<mergeVars, feedVars, buildVars, normVars, queryVars, uiVars, runVars>>

UpdateFinish == UpdateFinishOn(StoreFetchOutcomes)

Next == Tick \/ LoadFromManifest \/ LoadFromCache \/ UpdateStart \/ UpdateFinish

Spec == InitStore /\ [][Next]_vars

\* The store with subscribers: callbacks are registered before init(), after
\* it and while an update() awaits its fetch.  No cache entry is left from an
\* earlier session, and GitHub answers with at most MaxNotifyFetch
\* repositories.
NotifyFetchOutcomes ==
    { o \in StoreFetchOutcomes : Len(o.items) <= MaxNotifyFetch }

UpdateFinishNotify == UpdateFinishOn(NotifyFetchOutcomes)

InitNotify ==
    /\ InitStore
    /\ ~cache.present

NextNotify == OnUpdate \/ LoadFromManifest \/ LoadFromCache \/ UpdateStart \/ UpdateFinishNotify

SpecNotify == InitNotify /\ [][NextNotify]_vars

\* The same under the assumption that the HTTP transport settles every request
\* it was handed, by a response or by a failure.
SpecNotifyLive == SpecNotify /\ WF_vars(UpdateFinishNotify)

(***************************************************************************)
(* Raw upstream records: the elements of `items` in a search response.     *)
(* A field GitHub may leave out or send as null is kept with its           *)
(* JavaScript type next to its value, so that `x || d`, `x ? a : b` and    *)
(* `x.y` behave on it as they do in the code.                              *)
(***************************************************************************)
JsUndefined == [type |-> "undefined", value |-> ""]

JsNull == [type |-> "null", value |-> ""]

JsString(v) == [type |-> "string", value |-> v]

\* ToBoolean: undefined, null and the empty string are falsy.
Falsy(x) == x.type \in {"undefined", "null"} \/ (x.type = "string" /\ x.value = "")

\* x || d, on a string field
OrDefault(x, d) == IF Falsy(x) THEN d ELSE x.value

\* topics: the array, null, or left out
NoTopics(t) == [type |-> t, value |-> <<>>]

TopicArray(l) == [type |-> "array", value |-> l]

\* repo.topics || []
TopicsOrEmpty(x) == IF x.type = "array" THEN x.value ELSE <<>>

\* owner and license: an object or null
NullObject == [type |-> "null", login |-> "", spdx_id |-> ""]

OwnerObject == [type |-> "object", login |-> "alice", spdx_id |-> ""]

LicenseObject == [type |-> "object", login |-> "", spdx_id |-> "MIT"]

\* Reading a property of null raises a TypeError: repo.owner.login
ThrowsOnOwner(repo) == repo.owner.type # "object"

RawRepo(i, s, d, t, o, l, b) ==
    [id |-> i, updated_at |-> s, description |-> d, topics |-> t, owner |-> o,
     license |-> l, default_branch |-> b]

\* The canonical id as text: the prefix put before the upstream number, empty
\* when the number is used as it came.
PrefixedId(prefix, n) == [prefix |-> prefix, upstream |-> n]

(***************************************************************************)
(* SpecFeed: scripts/update-feed.js.  updateFeed() serves CONFIG.queries   *)
(* one after the other, then deduplicates, sorts, truncates and writes the *)
(* feed file.  The tool may be run again and again.                        *)
(***************************************************************************)
FeedLimit == 1     \* CONFIG.limit (FEED_LIMIT)

RepoIds == {7, 8}

RawRepos ==
    { RawRepo(i, s, JsString("A library"), TopicArray(<<>>), o, LicenseObject, JsString("main")) :
        i \in RepoIds, s \in {StampEarlyZ, StampLateZ}, o \in {OwnerObject, NullObject} }

FeedOutcomes ==
    { [kind |-> "ok", items |-> b] : b \in SeqsUpTo(RawRepos, MaxItems) }
    \cup { [kind |-> k, items |-> <<>>] :
            k \in {"rateLimit", "httpError", "networkError", "malformedBody"} }

\* fetchFromGitHub(endpoint) of update-feed.js: the promise resolves with the
\* parsed body on status 200 and rejects on everything else.
FeedFetchFromGitHub(o) ==
    IF o.kind = "ok"
    THEN [raised |-> FALSE, items |-> o.items]
    ELSE [raised |-> TRUE, items |-> <<>>]

\* searchRepos(query, perPage): result.items || [], or the rejection.
SearchRepos(o) == FeedFetchFromGitHub(o)

\* normalizeRepo(repo): the fields of the feed entry that the upstream record
\* may leave out, its id and its update time.
NormalizeRepo(repo) ==
    [id |-> PrefixedId("", repo.id),
     description |-> OrDefault(repo.description, ""),
     topics |-> TopicsOrEmpty(repo.topics),
     updated_at |-> repo.updated_at,
     owner |-> repo.owner.login,
     default_branch |-> repo.default_branch,
     license |-> IF repo.license.type = "object" THEN JsString(repo.license.spdx_id) ELSE JsNull]

\* repos.map(normalizeRepo): the mapped array, or the TypeError of the first
\* record whose owner is null.
MapNormalizeRepo(repos) ==
    IF \E k \in DOMAIN repos : ThrowsOnOwner(repos[k])
    THEN [raised |-> TRUE, records |-> <<>>]
    ELSE [raised |-> FALSE, records |-> [k \in DOMAIN repos |-> NormalizeRepo(repos[k])]]

\* deduplicateRepos: filter with a `seen` set, the first instance of an id stays.
DeduplicateRepos(repos) ==
    LET keep == { k \in DOMAIN repos : \A j \in 1..(k - 1) : repos[j].id # repos[k].id }
        F[k \in 0..Len(repos)] ==
            IF k = 0 THEN <<>>
            ELSE IF k \in keep THEN Append(F[k - 1], repos[k]) ELSE F[k - 1]
    IN F[Len(repos)]

\* Insert r into a list sorted by update time, newest first, after every
\* element that is not older (Array.prototype.sort is stable).
RECURSIVE InsertByUpdated(_, _)
InsertByUpdated(sorted, r) ==
    IF sorted = <<>> THEN <<r>>
    ELSE IF DateValue(Head(sorted).updated_at) >= DateValue(r.updated_at)
         THEN <<Head(sorted)>> \o InsertByUpdated(Tail(sorted), r)
         ELSE <<r>> \o sorted

\* sortByUpdated: repos.sort((a, b) => time(b) - time(a)).
SortByUpdated(repos) ==
    LET F[k \in 0..Len(repos)] ==
            IF k = 0 THEN <<>> ELSE InsertByUpdated(F[k - 1], repos[k])
    IN F[Len(repos)]

\* allRepos.slice(0, CONFIG.limit) when longer than the limit.
LimitRepos(repos) ==
    IF Len(repos) > FeedLimit THEN SubSeq(repos, 1, FeedLimit) ELSE repos

AfterQuery == IF qIdx < NumQueries THEN "request" ELSE "process"

InitFeed ==
    /\ IdleUI
    /\ IdleRuns
    /\ IdleMerge
    /\ IdleStore
    /\ IdleBuild
    /\ IdleNorm
    /\ IdleQuery
    /\ feedFile = [exists |-> FALSE, repositories |-> <<>>, total_count |-> 0]
    /\ fpc = "idle"
    /\ qIdx = 0
    /\ allRepos = <<>>
    /\ lastRequest = [kind |-> "none", raised |-> FALSE, signal |-> "none", count |-> 0]
    /\ inFlight = {}
    /\ qLog = <<>>
    /\ feedExit = -1

FeedStart ==
    /\ fpc = "idle"
    /\ fpc' = "request"
    /\ qIdx' = 1
    /\ allRepos' = <<>>
    /\ lastRequest' = [kind |-> "none", raised |-> FALSE, signal |-> "none", count |-> 0]
    /\ inFlight' = {}
    /\ qLog' = <<>>
    /\ feedExit' = -1
    /\ UNCHANGED feedFile
    /\ UNCHANGED <<mergeVars, storeVars, buildVars, normVars, queryVars, uiVars, runVars>>

\* Variants of the loop with one plausible slip each: every remaining request
\* started at once instead of awaited one by one, and a rejection that leaves
\* the loop instead of being caught inside it.
IssuedAll(q) == q..NumQueries

AfterCatchAbort == "process"

\* The requests a turn of the loop starts: `await searchRepos(query, 30)`
\* starts the request of this turn's query and of no other.
Issued(q) == {q}

\* The next element of CONFIG.queries, the last one once it is reached.
NextQuery(q) == IF q < NumQueries THEN q + 1 ELSE q

\* Where the loop goes once the catch block has run: on to the next query.
AfterCatch == AfterQuery

\* A turn of the for loop starts: searchRepos() sends the request and awaits.
FeedIssue ==
    /\ fpc = "request"
    /\ fpc' = "await"
    /\ inFlight' = inFlight \cup Issued(qIdx)
    /\ UNCHANGED <<feedFile, qIdx, allRepos, lastRequest, qLog, feedExit>>
    /\ UNCHANGED <<mergeVars, storeVars, buildVars, normVars, queryVars, uiVars, runVars>>

\* The awaited request settles: on success the normalized repositories are
\* pushed and the delay follows; a rejection, or a TypeError raised while the
\* response is normalized, lands in the catch.
FeedResponse ==
    /\ fpc = "await"
    /\ inFlight' = inFlight \ {qIdx}
    /\ \E o \in FeedOutcomes :
         \E repos \in {SearchRepos(o)} :
         \E mapped \in {MapNormalizeRepo(repos.items)} :
         IF ~repos.raised /\ ~mapped.raised
         THEN /\ allRepos' = allRepos \o mapped.records
              /\ lastRequest' = [kind |-> o.kind, raised |-> FALSE, signal |-> "none",
                                 count |-> Len(repos.items)]
              /\ qLog' = Append(qLog, [query |-> qIdx, ok |-> TRUE, kind |-> o.kind,
                                     items |-> repos.items])
              /\ fpc' = "delay"
              /\ UNCHANGED qIdx
         ELSE /\ UNCHANGED allRepos
              /\ lastRequest' = [kind |-> o.kind, raised |-> repos.raised,
                                 signal |-> "error", count |-> 0]
              /\ qLog' = Append(qLog, [query |-> qIdx, ok |-> FALSE,
                                     kind |-> IF repos.raised THEN o.kind ELSE "typeError",
                                     items |-> <<>>])
              /\ fpc' = AfterCatch
              /\ qIdx' = NextQuery(qIdx)
    /\ UNCHANGED <<feedFile, feedExit>>
    /\ UNCHANGED <<mergeVars, storeVars, buildVars, normVars, queryVars, uiVars, runVars>>

\* await new Promise(resolve => setTimeout(resolve, 500))
FeedDelay ==
    /\ fpc = "delay"
    /\ fpc' = AfterQuery
    /\ qIdx' = NextQuery(qIdx)
    /\ UNCHANGED <<feedFile, allRepos, lastRequest, inFlight, qLog, feedExit>>
    /\ UNCHANGED <<mergeVars, storeVars, buildVars, normVars, queryVars, uiVars, runVars>>

\* The exit status of a run of the script whose queries ended as the log
\* tells: every rejection of searchRepos was caught inside the loop of
\* updateFeed(), so the catch of the entry point with process.exit(1) is not
\* reached and the process ends normally.
FeedExitStatus(log) == 0

\* Process results and write the file; updateFeed() returns and the process
\* exits.
FeedProcess ==
    /\ fpc = "process"
    /\ feedExit' = FeedExitStatus(qLog)
    /\ LET written == LimitRepos(SortByUpdated(DeduplicateRepos(allRepos))) IN
         /\ allRepos' = written
         /\ feedFile' = [exists |-> TRUE, repositories |-> written,
                         total_count |-> Len(written)]
    /\ fpc' = "idle"
    /\ UNCHANGED <<qIdx, lastRequest, inFlight, qLog>>
    /\ UNCHANGED <<mergeVars, storeVars, buildVars, normVars, queryVars, uiVars, runVars>>

NextFeed == FeedStart \/ FeedIssue \/ FeedResponse \/ FeedDelay \/ FeedProcess

SpecFeed == InitFeed /\ [][NextFeed]_vars

(***************************************************************************)
(* SpecFeedFile: the processing of updateFeed() (deduplicate, sort, limit, *)
(* write) on what the queries of a run have collected.  One query returns  *)
(* up to 30 repositories, so the collected list may hold any id any number *)
(* of times.                                                               *)
(***************************************************************************)
MaxCollected == 3   \* most repositories the queries of a run return together

CollectedRepos ==
    { NormalizeRepo(RawRepo(i, s, JsString("A library"), TopicArray(<<>>), OwnerObject,
                            LicenseObject, JsString("main"))) :
        i \in RepoIds, s \in {StampEarlyZ, StampNoonZ, StampLateZ} }

\* updateFeed() has left its loop.
InitFeedFile ==
    /\ IdleUI
    /\ IdleRuns
    /\ IdleMerge
    /\ IdleStore
    /\ IdleBuild
    /\ IdleNorm
    /\ IdleQuery
    /\ feedFile = [exists |-> FALSE, repositories |-> <<>>, total_count |-> 0]
    /\ fpc = "process"
    /\ qIdx = NumQueries
    /\ allRepos \in SeqsUpTo(CollectedRepos, MaxCollected)
    /\ lastRequest = [kind |-> "none", raised |-> FALSE, signal |-> "none", count |-> 0]
    /\ inFlight = {}
    /\ qLog = <<>>
    /\ feedExit = -1

NextFeedFile == FeedProcess

SpecFeedFile == InitFeedFile /\ [][NextFeedFile]_vars

(***************************************************************************)
(* SpecBuild: scripts/build.js run with --fetch: main() loads the manifest, *)
(* fetches, and when the batch is not empty merges it and saves the        *)
(* manifest.  The tool may be run again on the file it left.               *)
(***************************************************************************)
\* The manifest file a first run finds: written by an earlier build or
\* curated by hand, missing, or not parsable as JSON.
ManifestsOnDisk ==
    { [status |-> "ok", scripts |-> c, lastUpdated |-> <<0>>] :
        c \in { m \in SeqsUpTo(ManifestRecords, MaxManifest) : UniqueIds(m) } }
    \cup { [status |-> k, scripts |-> <<>>, lastUpdated |-> <<>>] :
            k \in {"missing", "malformed"} }

\* What the search request of fetchGitHubRepos meets.
BuildFetchOutcomes ==
    { [kind |-> "ok", items |-> b] : b \in SeqsUpTo(FetchedRecords, MaxFetch) }
    \cup { [kind |-> k, items |-> <<>>] :
            k \in {"rateLimit", "httpError", "networkError", "malformedBody"} }

\* loadManifest: the parsed file, or the default manifest when the file is
\* missing or JSON.parse throws.
LoadManifest(file) ==
    IF file.status = "ok"
    THEN [scripts |-> file.scripts, lastUpdated |-> file.lastUpdated]
    ELSE [scripts |-> <<>>, lastUpdated |-> <<>>]

\* fetchGitHubRepos: the array it resolves to and the level it logs at; every
\* failure is caught inside it.
FetchGitHubRepos(o) ==
    CASE o.kind = "ok"            -> [result |-> o.items, signal |-> "success"]
      [] o.kind = "rateLimit"     -> [result |-> <<>>, signal |-> "warn"]
      [] o.kind = "malformedBody" -> [result |-> <<>>, signal |-> "success"]
      [] OTHER                    -> [result |-> <<>>, signal |-> "error"]

\* saveManifest(m) at time t: the file afterwards and the boolean returned;
\* a failing writeFileSync is caught and reported by `false`.
SaveManifest(file, m, t, writable) ==
    IF writable
    THEN [file |-> [status |-> "ok", scripts |-> m.scripts, lastUpdated |-> <<t>>],
          returned |-> "true"]
    ELSE [file |-> file, returned |-> "false"]

\* The exit status of a run of main() that did not throw: main() ignores what
\* saveManifest returned and the process ends normally.
ExitStatus(saved) == 0

InitBuild ==
    /\ IdleUI
    /\ IdleRuns
    /\ IdleMerge
    /\ IdleStore
    /\ IdleFeed
    /\ IdleNorm
    /\ IdleQuery
    /\ manifestDisk \in ManifestsOnDisk
    /\ manifest = [scripts |-> <<>>, lastUpdated |-> <<>>]
    /\ bpc = "idle"
    /\ runNo = 0
    /\ buildRun = [saved |-> "none", exit |-> -1, signal |-> "none", kind |-> "none"]

\* main() up to `await fetchGitHubRepos()`.
BuildStart ==
    /\ bpc = "idle"
    /\ runNo < MaxRuns
    /\ runNo' = runNo + 1
    /\ manifest' = LoadManifest(manifestDisk)
    /\ buildRun' = [saved |-> "none", exit |-> -1, signal |-> "none", kind |-> "none"]
    /\ bpc' = "fetching"
    /\ UNCHANGED manifestDisk
    /\ UNCHANGED <<mergeVars, storeVars, feedVars, normVars, queryVars, uiVars, runVars>>

\* The awaited fetch settles; merge and save when the batch is not empty;
\* main() returns and the process exits.
BuildFinish ==
    /\ bpc = "fetching"
    /\ \E o \in BuildFetchOutcomes, writable \in BOOLEAN :
         \E newScripts \in {FetchGitHubRepos(o)} :
           IF Len(newScripts.result) > 0
           THEN \E merged \in {[scripts |-> BuildMergeScripts(manifest.scripts, newScripts.result),
                                 lastUpdated |-> manifest.lastUpdated]} :
                \E saved \in {SaveManifest(manifestDisk, merged, runNo, writable)} :
                  /\ manifest' = [merged EXCEPT !.lastUpdated = <<runNo>>]
                  /\ manifestDisk' = saved.file
                  /\ buildRun' = [saved |-> saved.returned,
                                  exit |-> ExitStatus(saved.returned),
                                  signal |-> newScripts.signal, kind |-> o.kind]
           ELSE /\ UNCHANGED <<manifest, manifestDisk>>
                /\ buildRun' = [saved |-> "none", exit |-> ExitStatus("none"),
                                signal |-> newScripts.signal, kind |-> o.kind]
    /\ bpc' = "idle"
    /\ UNCHANGED runNo
    /\ UNCHANGED <<mergeVars, storeVars, feedVars, normVars, queryVars, uiVars, runVars>>

NextBuild == BuildStart \/ BuildFinish

SpecBuild == InitBuild /\ [][NextBuild]_vars

(***************************************************************************)
(* SpecNormalize: the three normalizers, each applied to the `items` of    *)
(* one search response: parseGitHubRepos of the store, the map inside      *)
(* fetchGitHubRepos of the build tool, normalizeRepo of the feed updater.  *)
(***************************************************************************)
MaxTags == 8

Placeholder == "No description available"

ProvenanceTags == <<"github", "repository">>

Topic(k) == "topic-" \o ToString(k)

\* The first n topics GitHub lists for a repository, in its order.
Topics(n) == [k \in 1..n |-> Topic(k)]

\* arr.slice(0, n)
Slice(arr, n) == IF Len(arr) > n THEN SubSeq(arr, 1, n) ELSE arr

RawDescriptions == {JsUndefined, JsNull, JsString(""), JsString("A library")}

RawTopics == {NoTopics("undefined"), NoTopics("null")} \cup { TopicArray(Topics(n)) : n \in 0..MaxTopics }

RawRecords ==
    { RawRepo(i, StampEarlyZ, d, t, o, l, b) :
        i \in RepoIds, d \in RawDescriptions, t \in RawTopics,
        o \in {OwnerObject, NullObject}, l \in {LicenseObject, NullObject},
        b \in {JsString("main"), JsUndefined} }

\* A record with every optional field present.
PlainRecord ==
    RawRepo(7, StampLateZ, JsString("A library"), TopicArray(Topics(1)), OwnerObject,
            LicenseObject, JsString("main"))

\* The responses studied: one record of any shape, alone or next to a plain
\* record.
RawResponses ==
    { <<r>> : r \in RawRecords }
    \cup { <<r, PlainRecord>> : r \in RawRecords }
    \cup { <<PlainRecord, r>> : r \in RawRecords }

\* The callback of repos.map in parseGitHubRepos.
ParseGitHubRepo(repo) ==
    [id |-> PrefixedId("github-", repo.id),
     category |-> "GitHub Repository",
     description |-> OrDefault(repo.description, Placeholder),
     tags |-> ProvenanceTags \o TopicsOrEmpty(repo.topics),
     difficulty |-> "varies",
     lastModified |-> repo.updated_at,
     source |-> "github",
     owner |-> repo.owner.login]

\* parseGitHubRepos(repos), called inside the try of fetchFromGitHub: the
\* mapped array, or the TypeError of the first record whose owner is null,
\* which the catch turns into [].
ParseGitHubRepos(repos) ==
    IF \E k \in DOMAIN repos : ThrowsOnOwner(repos[k])
    THEN [raised |-> TRUE, records |-> <<>>]
    ELSE [raised |-> FALSE, records |-> [k \in DOMAIN repos |-> ParseGitHubRepo(repos[k])]]

\* The callback of repos.map in fetchGitHubRepos of the build tool.
BuildNormalizeRepo(repo) ==
    [id |-> PrefixedId("github-", repo.id),
     category |-> "GitHub Repository",
     description |-> OrDefault(repo.description, Placeholder),
     tags |-> Slice(ProvenanceTags \o TopicsOrEmpty(repo.topics), MaxTags),
     difficulty |-> "varies",
     lastModified |-> repo.updated_at,
     source |-> "github",
     owner |-> repo.owner.login]

\* repos.map(...) inside the try of fetchGitHubRepos; a TypeError is caught
\* and [] is returned.
BuildNormalizeRepos(repos) ==
    IF \E k \in DOMAIN repos : ThrowsOnOwner(repos[k])
    THEN [raised |-> TRUE, records |-> <<>>]
    ELSE [raised |-> FALSE, records |-> [k \in DOMAIN repos |-> BuildNormalizeRepo(repos[k])]]

InitNormalize ==
    /\ IdleUI
    /\ IdleRuns
    /\ IdleMerge
    /\ IdleStore
    /\ IdleFeed
    /\ IdleBuild
    /\ IdleQuery
    /\ rawResponse \in RawResponses
    /\ normImpl \in {"store", "build", "feed"}
    /\ normalized = [done |-> FALSE, raised |-> FALSE, records |-> <<>>]

StoreNormalize ==
    /\ normImpl = "store"
    /\ ~normalized.done
    /\ \E out \in {ParseGitHubRepos(rawResponse)} :
         normalized' = [done |-> TRUE, raised |-> out.raised, records |-> out.records]
    /\ UNCHANGED <<rawResponse, normImpl>>
    /\ UNCHANGED <<mergeVars, storeVars, feedVars, buildVars, queryVars, uiVars, runVars>>

BuildNormalize ==
    /\ normImpl = "build"
    /\ ~normalized.done
    /\ \E out \in {BuildNormalizeRepos(rawResponse)} :
         normalized' = [done |-> TRUE, raised |-> out.raised, records |-> out.records]
    /\ UNCHANGED <<rawResponse, normImpl>>
    /\ UNCHANGED <<mergeVars, storeVars, feedVars, buildVars, queryVars, uiVars, runVars>>

FeedNormalize ==
    /\ normImpl = "feed"
    /\ ~normalized.done
    /\ \E out \in {MapNormalizeRepo(rawResponse)} :
         normalized' = [done |-> TRUE, raised |-> out.raised, records |-> out.records]
    /\ UNCHANGED <<rawResponse, normImpl>>
    /\ UNCHANGED <<mergeVars, storeVars, feedVars, buildVars, queryVars, uiVars, runVars>>

NextNormalize == StoreNormalize \/ BuildNormalize \/ FeedNormalize

SpecNormalize == InitNormalize /\ [][NextNormalize]_vars

(***************************************************************************)
(* SpecQuery: the query methods of ScriptUpdateManager (search, getRecent, *)
(* getStats), each called once on a loaded collection.  A text is the      *)
(* sequence of its characters, so that toLowerCase and includes work on it *)
(* as they do on a JavaScript string.                                      *)
(***************************************************************************)
TopTagsLimit == 10

\* String.prototype.toLowerCase, on the letters the texts are written with.
ToLowerChar(c) == CASE c = "A" -> "a"
                    [] c = "B" -> "b"
                    [] OTHER   -> c

ToLowerCase(t) == [k \in DOMAIN t |-> ToLowerChar(t[k])]

\* String.prototype.includes
Includes(t, sub) ==
    \E i \in 0..(Len(t) - Len(sub)) : SubSeq(t, i + 1, i + Len(sub)) = sub

\* A record of the collection, with the fields the query methods read.
QRec(i, title, description, tags, category, difficulty, stamp) ==
    [id |-> i, title |-> title, description |-> description, tags |-> tags,
     category |-> category, difficulty |-> difficulty, lastModified |-> stamp]

\* The id of the record at position k of a collection.
QId(k) == "script-" \o ToString(k)

TextGUI == <<"G", "U", "I">>

TextHotkeys == <<"K", "e", "y", "s">>

TextConstructor == <<"c", "o", "n", "s", "t", "r", "u", "c", "t", "o", "r">>

TextBeginner == <<"B", "e", "g">>

TextAdvanced == <<"A", "d", "v">>

\* const lowerQuery = query.toLowerCase(), and a variant that searches for
\* the query as typed.
LowerQueryAsTyped(q) == q

LowerQuery(q) == ToLowerCase(q)

\* The predicate of the filter in search().
SearchTest(r, lowerQuery) ==
    \/ Includes(ToLowerCase(r.title), lowerQuery)
    \/ Includes(ToLowerCase(r.description), lowerQuery)
    \/ /\ r.tags.type = "array"
       /\ \E k \in DOMAIN r.tags.value : Includes(ToLowerCase(r.tags.value[k]), lowerQuery)

\* search(query): this.scripts.filter(...)
Search(s, q) ==
    LET lowerQuery == LowerQuery(q)
        Test(r) == SearchTest(r, lowerQuery)
    IN SelectSeq(s, Test)

\* Insert r into a list sorted by lastModified, newest first, after every
\* element that is not older (Array.prototype.sort is stable).
RECURSIVE InsertByModified(_, _)
InsertByModified(sorted, r) ==
    IF sorted = <<>> THEN <<r>>
    ELSE IF DateValue(Head(sorted).lastModified) >= DateValue(r.lastModified)
         THEN <<Head(sorted)>> \o InsertByModified(Tail(sorted), r)
         ELSE <<r>> \o sorted

\* arr.sort((a, b) => new Date(b.lastModified) - new Date(a.lastModified))
SortByModified(arr) ==
    LET F[k \in 0..Len(arr)] ==
            IF k = 0 THEN <<>> ELSE InsertByModified(F[k - 1], arr[k])
    IN F[Len(arr)]

\* arr.slice(0, limit): a negative limit counts from the end.
SliceTo(arr, limit) ==
    LET end == IF limit < 0 THEN (IF Len(arr) + limit > 0 THEN Len(arr) + limit ELSE 0)
               ELSE (IF limit < Len(arr) THEN limit ELSE Len(arr))
    IN SubSeq(arr, 1, end)

\* A variant of getRecent that sorts this.scripts itself instead of a copy.
GetRecentInPlace(s, limit) ==
    [returned |-> SliceTo(SortByModified(s), limit), scripts |-> SortByModified(s)]

\* getRecent(limit): what it returns and this.scripts afterwards; the sort
\* works on the copy [...this.scripts].
GetRecent(s, limit) ==
    [returned |-> SliceTo(SortByModified(s), limit), scripts |-> s]

\* The value of a decimal digit, -1 for any other character.
DigitOf(c) == CASE c = "0" -> 0 [] c = "1" -> 1 [] c = "2" -> 2 [] c = "3" -> 3
                [] c = "4" -> 4 [] c = "5" -> 5 [] c = "6" -> 6 [] c = "7" -> 7
                [] c = "8" -> 8 [] c = "9" -> 9 [] OTHER -> -1

IndexValue(t) ==
    LET F[k \in 0..Len(t)] == IF k = 0 THEN 0 ELSE F[k - 1] * 10 + DigitOf(t[k])
    IN F[Len(t)]

\* A property key that is an array index: the canonical decimal form of an
\* integer below 2^32 - 1; every such form of up to nine digits is one, and
\* no numeric text here has ten.  An object lists such keys
\* first, in ascending numeric order, and its other keys after them in
\* insertion order.
IsArrayIndex(t) ==
    /\ Len(t) \in 1..9
    /\ \A k \in DOMAIN t : DigitOf(t[k]) >= 0
    /\ Len(t) = 1 \/ t[1] # "0"

\* The names every object literal inherits from Object.prototype with a
\* truthy value.
InheritedNames == {TextConstructor}

\* What `(obj[key] || 0) + 1` leaves when obj[key] is not a number: the
\* concatenation of a string with "1", which is no count.
NotACount == -1

\* The own properties of an object, in the order Object.entries lists them.
AddOwnProperty(obj, entry) ==
    IF IsArrayIndex(entry.key)
    THEN LET n == Cardinality({ i \in DOMAIN obj :
                        /\ IsArrayIndex(obj[i].key)
                        /\ IndexValue(obj[i].key) < IndexValue(entry.key) })
         IN SubSeq(obj, 1, n) \o <<entry>> \o SubSeq(obj, n + 1, Len(obj))
    ELSE Append(obj, entry)

\* obj[key] = (obj[key] || 0) + 1
Increment(obj, key) ==
    IF \E i \in DOMAIN obj : obj[i].key = key
    THEN [i \in DOMAIN obj |->
            IF obj[i].key = key
            THEN [key |-> key,
                  count |-> IF obj[i].count = NotACount THEN NotACount ELSE obj[i].count + 1]
            ELSE obj[i]]
    ELSE AddOwnProperty(obj, [key |-> key,
                              count |-> IF key \in InheritedNames THEN NotACount ELSE 1])

\* The counting object built from a sequence of keys.
CountAll(keys) ==
    LET F[k \in 0..Len(keys)] == IF k = 0 THEN <<>> ELSE Increment(F[k - 1], keys[k])
    IN F[Len(keys)]

\* The tags of the collection in the order the loops of getStats meet them.
RECURSIVE AllTags(_)
AllTags(s) ==
    IF s = <<>> THEN <<>>
    ELSE (IF Head(s).tags.type = "array" THEN Head(s).tags.value ELSE <<>>)
         \o AllTags(Tail(s))

\* b[1] - a[1] > 0: entry b goes before entry a; the difference is NaN, and
\* the order kept, when a count is not a number.
CountGreater(b, a) ==
    /\ a.count # NotACount /\ b.count # NotACount
    /\ b.count > a.count

RECURSIVE InsertByCount(_, _)
InsertByCount(sorted, e) ==
    IF sorted = <<>> THEN <<e>>
    ELSE IF CountGreater(e, Head(sorted))
         THEN <<e>> \o sorted
         ELSE <<Head(sorted)>> \o InsertByCount(Tail(sorted), e)

\* Object.entries(tags).sort((a, b) => b[1] - a[1])
SortByCount(entries) ==
    LET F[k \in 0..Len(entries)] ==
            IF k = 0 THEN <<>> ELSE InsertByCount(F[k - 1], entries[k])
    IN F[Len(entries)]

\* getStats()
GetStats(s, lu) ==
    [totalScripts |-> Len(s),
     lastUpdated |-> lu,
     categories |-> CountAll([k \in DOMAIN s |-> s[k].category]),
     difficulties |-> CountAll([k \in DOMAIN s |-> s[k].difficulty]),
     topTags |-> SliceTo(SortByCount(CountAll(AllTags(s))), TopTagsLimit)]

\* The code unit of a character of the texts.
CharCode(c) ==
    CASE c = "0" -> 48 [] c = "1" -> 49 [] c = "2" -> 50 [] c = "3" -> 51 [] c = "4" -> 52
      [] c = "5" -> 53 [] c = "6" -> 54 [] c = "7" -> 55 [] c = "8" -> 56 [] c = "9" -> 57
      [] c = "A" -> 65 [] c = "B" -> 66 [] c = "G" -> 71 [] c = "I" -> 73 [] c = "K" -> 75
      [] c = "U" -> 85 [] c = "a" -> 97 [] c = "b" -> 98 [] c = "c" -> 99 [] c = "d" -> 100
      [] c = "e" -> 101 [] c = "g" -> 103 [] c = "n" -> 110 [] c = "o" -> 111
      [] c = "r" -> 114 [] c = "s" -> 115 [] c = "t" -> 116 [] c = "u" -> 117
      [] c = "v" -> 118 [] c = "y" -> 121

\* a < b on two strings: the order of the code units at the first position
\* where they differ, a proper prefix before the longer string.
TextLess(a, b) ==
    \/ /\ Len(a) < Len(b)
       /\ \A k \in DOMAIN a : a[k] = b[k]
    \/ \E k \in DOMAIN a \cap DOMAIN b :
          /\ \A j \in 1..(k - 1) : a[j] = b[j]
          /\ CharCode(a[k]) < CharCode(b[k])

\* The values a Set keeps when they are added one after the other: each value
\* once, at the place of its first occurrence.
SetOf(values) ==
    LET F[k \in 0..Len(values)] ==
            IF k = 0 THEN <<>>
            ELSE IF \E j \in 1..(k - 1) : values[j] = values[k]
                 THEN F[k - 1]
                 ELSE Append(F[k - 1], values[k])
    IN F[Len(values)]

RECURSIVE InsertText(_, _)
InsertText(sorted, t) ==
    IF sorted = <<>> THEN <<t>>
    ELSE IF TextLess(t, Head(sorted))
         THEN <<t>> \o sorted
         ELSE <<Head(sorted)>> \o InsertText(Tail(sorted), t)

\* A variant of the sort that leaves the array as it is.
SortTextsNot(arr) == arr

\* arr.sort(): ascending by code units.
SortTexts(arr) ==
    LET F[k \in 0..Len(arr)] == IF k = 0 THEN <<>> ELSE InsertText(F[k - 1], arr[k])
    IN F[Len(arr)]

\* getCategories(): [...new Set(this.scripts.map(s => s.category))]
GetCategories(s) == SetOf([k \in DOMAIN s |-> s[k].category])

\* getAllTags(): the tags added to a Set script by script, then [...tags].sort()
GetAllTags(s) == SortTexts(SetOf(AllTags(s)))

\* The collections searched.
SearchTitles == {<<"A", "b">>, <<"b", "a">>}

SearchDescriptions == {<<>>, <<"a", "B">>}

SearchTags == {NoTags, TagArray(<<>>), TagArray(<< <<"b", "A">>, <<"a">> >>)}

SearchCollections ==
    UNION { [1..n -> { QRec("", t, d, g, TextGUI, TextBeginner, StampEarlyZ) :
                          t \in SearchTitles, d \in SearchDescriptions, g \in SearchTags }] :
            n \in 0..MaxSearched }

Queries == SeqsUpTo({"a", "A", "b", "B"}, MaxQueryLen)

\* The collections sorted by recency: every record carries a date.
RecentCollections ==
    UNION { [1..n -> { QRec("", <<"A">>, <<>>, NoTags, TextGUI, TextBeginner, st) :
                          st \in Stamps \ {NoStamp} }] : n \in 0..MaxRecent }

\* The collections counted: categories and difficulties, then tags.
CountedCollections ==
    UNION { [1..n -> { QRec("", <<"A">>, <<>>, NoTags, c, d, StampEarlyZ) :
                          c \in {TextGUI, TextHotkeys, TextConstructor},
                          d \in {TextBeginner, TextAdvanced} }] : n \in 0..MaxCounted }

TagLists == {NoTags, TagArray(<< <<"a">> >>), TagArray(<< <<"b">>, <<"a">> >>),
             TagArray(<< <<"a", "b">>, <<"B">>, <<"a">> >>),
             TagArray(<< <<"a">>, <<"2">> >>),
             TagArray(<< <<"b">>, <<"1", "0">>, <<"a">> >>), TagArray(<< <<"2">>, <<"b">> >>)}

TaggedCollections ==
    UNION { [1..n -> { QRec("", <<"A">>, <<>>, g, TextGUI, TextBeginner, StampEarlyZ) :
                          g \in TagLists }] : n \in 0..MaxTagged }

\* The ids of a collection are those of its positions.
WithIds(s) == [k \in DOMAIN s |-> [s[k] EXCEPT !.id = QId(k)]]

IdleAnswer == [done |-> FALSE, returned |-> <<>>, before |-> <<>>]

InitQuery ==
    /\ IdleUI
    /\ IdleRuns
    /\ IdleMerge
    /\ IdleFeed
    /\ IdleBuild
    /\ IdleNorm
    /\ lastUpdate = <<1>>
    /\ cache = [present |-> FALSE, valid |-> FALSE, scripts |-> <<>>, timestamp |-> 0]
    /\ now = 1
    /\ pc = "loaded"
    /\ lastOp = [op |-> "none", result |-> FALSE, repeated |-> FALSE, signal |-> "none",
                 raised |-> FALSE]
    /\ updateCallbacks = <<>>
    /\ calls = <<>>
    /\ answer = IdleAnswer
    /\ \/ /\ query \in { [op |-> "search", text |-> q, limit |-> 0] : q \in Queries }
          /\ scripts \in { WithIds(c) : c \in SearchCollections }
       \/ /\ query \in { [op |-> "getRecent", text |-> <<>>, limit |-> l] : l \in 0..MaxLimit }
          /\ scripts \in { WithIds(c) : c \in RecentCollections }
       \/ /\ query \in { [op |-> m, text |-> <<>>, limit |-> 0] :
                          m \in {"getStats", "getCategories", "getAllTags"} }
          /\ scripts \in { WithIds(c) : c \in CountedCollections \cup TaggedCollections }

CallSearch ==
    /\ query.op = "search"
    /\ ~answer.done
    /\ answer' = [done |-> TRUE, returned |-> Search(scripts, query.text), before |-> scripts]
    /\ UNCHANGED <<query, storeVars>>
    /\ UNCHANGED <<mergeVars, feedVars, buildVars, normVars, uiVars, runVars>>

CallGetRecent ==
    /\ query.op = "getRecent"
    /\ ~answer.done
    /\ \E out \in {GetRecent(scripts, query.limit)} :
         /\ answer' = [done |-> TRUE, returned |-> out.returned, before |-> scripts]
         /\ scripts' = out.scripts
    /\ UNCHANGED <<query, lastUpdate, cache, now, pc, lastOp, updateCallbacks, calls>>
    /\ UNCHANGED <<mergeVars, feedVars, buildVars, normVars, uiVars, runVars>>

CallGetStats ==
    /\ query.op = "getStats"
    /\ ~answer.done
    /\ answer' = [done |-> TRUE, returned |-> GetStats(scripts, lastUpdate), before |-> scripts]
    /\ UNCHANGED <<query, storeVars>>
    /\ UNCHANGED <<mergeVars, feedVars, buildVars, normVars, uiVars, runVars>>

CallGetCategories ==
    /\ query.op = "getCategories"
    /\ ~answer.done
    /\ answer' = [done |-> TRUE, returned |-> GetCategories(scripts), before |-> scripts]
    /\ UNCHANGED <<query, storeVars>>
    /\ UNCHANGED <<mergeVars, feedVars, buildVars, normVars, uiVars, runVars>>

CallGetAllTags ==
    /\ query.op = "getAllTags"
    /\ ~answer.done
    /\ answer' = [done |-> TRUE, returned |-> GetAllTags(scripts), before |-> scripts]
    /\ UNCHANGED <<query, storeVars>>
    /\ UNCHANGED <<mergeVars, feedVars, buildVars, normVars, uiVars, runVars>>

NextQueryCall ==
    CallSearch \/ CallGetRecent \/ CallGetStats \/ CallGetCategories \/ CallGetAllTags

SpecQuery == InitQuery /\ [][NextQueryCall]_vars

(***************************************************************************)
(* SpecUI: ScriptFeedUI on a loaded store.  The container is rebuilt by    *)
(* every render(): its selects, its search input, its refresh button and   *)
(* its page buttons are new elements each time, and a listener only ever   *)
(* runs for an element the user can reach, one of the container as it was  *)
(* rendered last, or for a debounce timer set earlier.  The query methods  *)
(* are also called directly, as any script of the page may.                *)
(***************************************************************************)
ItemsPerPage == 1   \* options.itemsPerPage of the page studied

MaxShown == 1       \* most records in the manifest loaded behind the UI

MaxPending == 2     \* most update() calls awaiting their fetch at one time

MaxTimers == 1      \* most debounce timers of replaced search inputs still pending

MaxPage == 3        \* the page after which Next is not clicked any more

\* The values of the difficulty options, as the select spells them.
OptionBeginner == <<"b", "e", "g">>

OptionIntermediate == <<"i", "n", "t">>

OptionAdvanced == <<"a", "d", "v">>

\* Array.prototype.splice(start, end - start): the elements taken, and the
\* array without them.
ArraySplice(arr, start, end) ==
    LET last == IF end < Len(arr) THEN end ELSE Len(arr) IN
    [returned |-> SubSeq(arr, start + 1, last),
     array |-> IF start >= Len(arr) THEN arr
               ELSE SubSeq(arr, 1, start) \o SubSeq(arr, last + 1, Len(arr))]

\* Array.prototype.slice(start, end), 0 <= start <= end: the elements copied,
\* and the array, which is left as it is.
ArraySlice(arr, start, end) ==
    LET last == IF end < Len(arr) THEN end ELSE Len(arr) IN
    [returned |-> SubSeq(arr, start + 1, last), array |-> arr]

\* getByCategory(category)
GetByCategory(s, category) == SelectSeq(s, LAMBDA r : r.category = category)

\* getByTag(tag)
GetByTag(s, tag) ==
    SelectSeq(s, LAMBDA r : /\ r.tags.type = "array"
                            /\ \E k \in DOMAIN r.tags.value : r.tags.value[k] = tag)

\* getByDifficulty(difficulty)
GetByDifficulty(s, difficulty) == SelectSeq(s, LAMBDA r : r.difficulty = difficulty)

\* getById(id): the first record with this id, <<>> for undefined.
GetById(s, id) == IF FindIndex(s, id) = 0 THEN <<>> ELSE <<s[FindIndex(s, id)]>>

\* A direct call of a query method: what it returns, and this.scripts
\* afterwards.
CallQuery(op, s, text, limit, lu) ==
    CASE op = "getByCategory"   -> [returned |-> GetByCategory(s, text), scripts |-> s]
      [] op = "getByTag"        -> [returned |-> GetByTag(s, text), scripts |-> s]
      [] op = "getByDifficulty" -> [returned |-> GetByDifficulty(s, text), scripts |-> s]
      [] op = "search"          -> [returned |-> Search(s, text), scripts |-> s]
      [] op = "getCategories"   -> [returned |-> GetCategories(s), scripts |-> s]
      [] op = "getAllTags"      -> [returned |-> GetAllTags(s), scripts |-> s]
      [] op = "getById"         -> [returned |-> GetById(s, QId(limit)), scripts |-> s]
      [] op = "getRecent"       -> GetRecent(s, limit)
      [] op = "getStats"        -> [returned |-> GetStats(s, lu), scripts |-> s]

\* The text a method is called with.
QueryArgument(op) ==
    CASE op = "getByCategory"   -> TextGUI
      [] op = "getByDifficulty" -> OptionBeginner
      [] OTHER                  -> <<"a">>

QueryMethods ==
    {"getByCategory", "getByTag", "getByDifficulty", "search", "getCategories",
     "getAllTags", "getById", "getRecent", "getStats"}

\* getFilteredScripts(): the list, and whether it is this.manager.scripts
\* itself rather than a new array.
GetFilteredScripts(s, f) ==
    CASE f.type = "category"   -> [list |-> GetByCategory(s, f.value), aliased |-> FALSE]
      [] f.type = "tag"        -> [list |-> GetByTag(s, f.value), aliased |-> FALSE]
      [] f.type = "difficulty" -> [list |-> GetByDifficulty(s, f.value), aliased |-> FALSE]
      [] f.type = "search"     -> [list |-> Search(s, f.value), aliased |-> FALSE]
      [] OTHER                 -> [list |-> s, aliased |-> TRUE]

\* Math.ceil(totalItems / itemsPerPage)
TotalPages(totalItems) == (totalItems + ItemsPerPage - 1) \div ItemsPerPage

\* renderPagination(totalItems): nothing for at most one page, else the two
\* page buttons with their disabled attributes.
RenderPagination(totalItems, page) ==
    IF TotalPages(totalItems) <= 1
    THEN [shown |-> FALSE, prevDisabled |-> FALSE, nextDisabled |-> FALSE]
    ELSE [shown |-> TRUE, prevDisabled |-> (page = 1),
          nextDisabled |-> (page = TotalPages(totalItems))]

\* render(): the container it builds, and this.manager.scripts afterwards.
\* The category options are those of getCategories().
Render(s, f, page) ==
    LET filtered == GetFilteredScripts(s, f)
        start == (page - 1) * ItemsPerPage
        pageScripts == ArraySlice(filtered.list, start, start + ItemsPerPage)
        after == IF filtered.aliased THEN pageScripts.array ELSE s
    IN [scripts |-> after,
        view |-> [count |-> Len(filtered.list),
                  items |-> [k \in DOMAIN pageScripts.returned |-> pageScripts.returned[k].id],
                  categories |-> GetCategories(after),
                  pagination |-> RenderPagination(Len(filtered.list), page)]]

\* String.prototype.trim, on texts whose only white space is the blank.
RECURSIVE TrimStart(_)
TrimStart(t) == IF t # <<>> /\ Head(t) = " " THEN TrimStart(Tail(t)) ELSE t

RECURSIVE TrimEnd(_)
TrimEnd(t) == IF t # <<>> /\ t[Len(t)] = " " THEN TrimEnd(SubSeq(t, 1, Len(t) - 1)) ELSE t

Trim(t) == TrimEnd(TrimStart(t))

\* The handlers of the filter selects and of the search timer, and variants
\* that keep the page: value ? { type, value } : null, then currentPage = 1.
ApplyFilterKeepPage(filterType, value, page) ==
    [filter |-> IF value # <<>> THEN [type |-> filterType, value |-> value] ELSE NoFilter,
     page |-> page]

ApplyFilter(filterType, value, page) ==
    [filter |-> IF value # <<>> THEN [type |-> filterType, value |-> value] ELSE NoFilter,
     page |-> 1]

\* The timers once the container has been rebuilt: the one of the replaced
\* search input stays pending, out of reach of clearTimeout.
TimersAfterRender(timers) ==
    [current |-> <<>>,
     stale |-> timers.stale \cup { timers.current[k] : k \in DOMAIN timers.current }]

\* The values of the difficulty select, "" left aside.
DifficultyOptions == {OptionBeginner, OptionIntermediate, OptionAdvanced}

\* What the search input holds when its timer fires: blanks only, or a word.
SearchInputs == { <<" ">>, <<"A">> }

UIManifestRecords ==
    { QRec("", <<"A">>, <<>>, NoTags, c, OptionBeginner, StampEarlyZ) : c \in {TextGUI, TextHotkeys} }

UICollections == { WithIds(c) : c \in SeqsUpTo(UIManifestRecords, MaxShown) }

\* The repository GitHub answers with, before and after it was renamed
\* upstream.
UIFetchedRecords ==
    { QRec(QId(MaxShown + 1), <<"A">>, <<>>, NoTags, TextHotkeys, TextAdvanced, StampEarlyZ),
      QRec(QId(MaxShown + 1), <<"B">>, <<>>, NoTags, TextHotkeys, TextAdvanced, StampLateZ) }

UIFetchOutcomes ==
    { [kind |-> "ok", items |-> b] : b \in SeqsUpTo(UIFetchedRecords, 1) }
    \cup { [kind |-> "networkError", items |-> <<>>] }

RenderCallback == [id |-> "render", throws |-> FALSE]

\* The state after `await ui.init(manager)`: the callback registered, the
\* manifest loaded, no cache entry, the first render() done.
InitUI ==
    /\ IdleMerge
    /\ IdleFeed
    /\ IdleBuild
    /\ IdleNorm
    /\ IdleQuery
    /\ IdleRuns
    /\ scripts \in UICollections
    /\ lastUpdate = <<0>>
    /\ cache = [present |-> FALSE, valid |-> FALSE, scripts |-> <<>>, timestamp |-> 0]
    /\ now = 1
    /\ pc = "loaded"
    /\ lastOp = [op |-> "none", result |-> FALSE, repeated |-> FALSE, signal |-> "none",
                 raised |-> FALSE]
    /\ updateCallbacks = <<RenderCallback>>
    /\ calls = <<>>
    /\ currentPage = 1
    /\ currentFilter = NoFilter
    /\ rendered = Render(scripts, NoFilter, 1).view
    /\ refreshDisabled = FALSE
    /\ pendingUpdates = 0
    /\ searchTimers = [current |-> <<>>, stale |-> {}]
    /\ modal = FALSE

\* this.render() at the end of a listener, on the collection s.
RenderNow(s, f, page) ==
    \E out \in {Render(s, f, page)} :
        /\ scripts' = out.scripts
        /\ rendered' = out.view
        /\ refreshDisabled' = FALSE
        /\ searchTimers' = TimersAfterRender(searchTimers)

\* 'change' on a filter select, whose value is one of its options.
UIFilterChange ==
    /\ pc = "loaded"
    /\ UNCHANGED <<pendingUpdates, modal>>
    /\ UNCHANGED <<lastUpdate, cache, now, pc, lastOp, updateCallbacks, calls>>
    /\ UNCHANGED <<mergeVars, feedVars, buildVars, normVars, queryVars, runVars>>
    /\ \E filterType \in {"category", "difficulty"} :
       \E value \in (IF filterType = "category"
                     THEN { rendered.categories[k] : k \in DOMAIN rendered.categories }
                     ELSE DifficultyOptions) \cup {<<>>} :
       \E set \in {ApplyFilter(filterType, value, currentPage)} :
          /\ currentFilter' = set.filter
          /\ currentPage' = set.page
          /\ RenderNow(scripts, set.filter, set.page)

\* 'input' on the search input: the timer of this input is replaced.
UISearchInput ==
    /\ pc = "loaded"
    /\ Cardinality(searchTimers.stale) < MaxTimers
    /\ \E typed \in SearchInputs :
         searchTimers' = [searchTimers EXCEPT !.current = <<typed>>]
    /\ UNCHANGED <<currentPage, currentFilter, rendered, refreshDisabled, pendingUpdates, modal>>
    /\ UNCHANGED <<mergeVars, storeVars, feedVars, buildVars, normVars, queryVars, runVars>>

\* A debounce timer fires, 300 ms after it was set.
UISearchApplied ==
    /\ pc = "loaded"
    /\ UNCHANGED <<pendingUpdates, modal>>
    /\ UNCHANGED <<lastUpdate, cache, now, pc, lastOp, updateCallbacks, calls>>
    /\ UNCHANGED <<mergeVars, feedVars, buildVars, normVars, queryVars, runVars>>
    /\ \E typed \in searchTimers.stale \cup
                    { searchTimers.current[k] : k \in DOMAIN searchTimers.current } :
       \E set \in {ApplyFilter("search", Trim(typed), currentPage)} :
       \E out \in {Render(scripts, set.filter, set.page)} :
          /\ currentFilter' = set.filter
          /\ currentPage' = set.page
          /\ scripts' = out.scripts
          /\ rendered' = out.view
          /\ refreshDisabled' = FALSE
          /\ searchTimers' =
               IF <<typed>> = searchTimers.current
               THEN [current |-> <<>>, stale |-> searchTimers.stale]
               ELSE TimersAfterRender([searchTimers EXCEPT !.stale = @ \ {typed}])

\* 'click' on the previous-page button, which is there and not disabled.
UIPrevPage ==
    /\ pc = "loaded"
    /\ rendered.pagination.shown /\ ~rendered.pagination.prevDisabled
    /\ IF currentPage > 1
       THEN /\ currentPage' = currentPage - 1
            /\ RenderNow(scripts, currentFilter, currentPage - 1)
       ELSE UNCHANGED <<currentPage, scripts, rendered, refreshDisabled, searchTimers>>
    /\ UNCHANGED <<lastUpdate, cache, now, pc, lastOp, updateCallbacks, calls>>
    /\ UNCHANGED <<currentFilter, pendingUpdates, modal>>
    /\ UNCHANGED <<mergeVars, feedVars, buildVars, normVars, queryVars, runVars>>

\* 'click' on the next-page button, which is there and not disabled.
UINextPage ==
    /\ pc = "loaded"
    /\ currentPage < MaxPage
    /\ rendered.pagination.shown /\ ~rendered.pagination.nextDisabled
    /\ currentPage' = currentPage + 1
    /\ RenderNow(scripts, currentFilter, currentPage + 1)
    /\ UNCHANGED <<lastUpdate, cache, now, pc, lastOp, updateCallbacks, calls>>
    /\ UNCHANGED <<currentFilter, pendingUpdates, modal>>
    /\ UNCHANGED <<mergeVars, feedVars, buildVars, normVars, queryVars, runVars>>

\* 'click' on the View Code button of a card: showCodeModal(id).
UIViewCode ==
    /\ pc = "loaded"
    /\ \E k \in DOMAIN rendered.items :
       \E script \in {GetById(scripts, rendered.items[k])} :
          modal' = IF script = <<>> THEN modal ELSE TRUE
    /\ UNCHANGED <<currentPage, currentFilter, rendered, refreshDisabled, pendingUpdates,
                   searchTimers>>
    /\ UNCHANGED <<mergeVars, storeVars, feedVars, buildVars, normVars, queryVars, runVars>>

\* 'click' on the refresh button, which is not disabled: it is disabled and
\* update() runs up to its awaited fetch.
UIRefreshClick ==
    /\ pc = "loaded"
    /\ ~refreshDisabled
    /\ pendingUpdates < MaxPending
    /\ refreshDisabled' = TRUE
    /\ pendingUpdates' = pendingUpdates + 1
    /\ UNCHANGED <<currentPage, currentFilter, rendered, searchTimers, modal>>
    /\ UNCHANGED <<mergeVars, storeVars, feedVars, buildVars, normVars, queryVars, runVars>>

\* The fetch of a pending update() settles: update() runs to its end (the
\* cache has room), its notifyUpdate calls render(), and the listener then
\* enables the button it was clicked on, which render() has replaced by then.
UIRefreshDone ==
    /\ pc = "loaded"
    /\ pendingUpdates > 0
    /\ \E o \in UIFetchOutcomes :
       \E fetched \in {StoreFetchFromGitHub(o)} :
       \E done \in {UpdateSteps(scripts, lastUpdate, cache, updateCallbacks,
                                fetched, TRUE, now)} :
          /\ lastUpdate' = done.lastUpdate
          /\ cache' = done.cache
          /\ calls' = done.calls
          /\ lastOp' = [op |-> "update", result |-> ~done.raised,
                        repeated |-> HasRepeatedId(fetched.result),
                        signal |-> fetched.signal, raised |-> done.raised]
          /\ RenderNow(done.scripts, currentFilter, currentPage)
    /\ pendingUpdates' = pendingUpdates - 1
    /\ UNCHANGED <<now, pc, updateCallbacks>>
    /\ UNCHANGED <<currentPage, currentFilter, modal>>
    /\ UNCHANGED <<mergeVars, feedVars, buildVars, normVars, queryVars, runVars>>

\* A query method is called directly.
UICallQuery ==
    /\ pc = "loaded"
    /\ scripts' \in { CallQuery(op, scripts, QueryArgument(op), MaxShown, lastUpdate).scripts :
                        op \in QueryMethods }
    /\ UNCHANGED <<lastUpdate, cache, now, pc, lastOp, updateCallbacks, calls>>
    /\ UNCHANGED <<mergeVars, feedVars, buildVars, normVars, queryVars, uiVars, runVars>>

NextUI ==
    \/ UIFilterChange \/ UISearchInput \/ UISearchApplied \/ UIPrevPage \/ UINextPage
    \/ UIViewCode \/ UIRefreshClick \/ UIRefreshDone \/ UICallQuery

SpecUI == InitUI /\ [][NextUI]_vars

(***************************************************************************)
(* SpecCache: the cache entry across loads.  A loaded store runs update(), *)
(* which saves; loadFromCache is then called again on the same store, or   *)
(* the page is opened again: a new store is constructed and init() loads   *)
(* the manifest and the cache entry the first store left.                  *)
(***************************************************************************)
InitCache ==
    /\ IdleMerge
    /\ IdleFeed
    /\ IdleBuild
    /\ IdleNorm
    /\ IdleQuery
    /\ IdleUI
    /\ overlap = [before |-> <<>>, call |-> <<>>, both |-> FALSE]
    /\ scripts \in Collections(ManifestRecords \cup { Rec(i, NoStamp, "old") : i \in Ids })
    /\ lastUpdate = <<0>>
    /\ cache = [present |-> FALSE, valid |-> FALSE, scripts |-> <<>>, timestamp |-> 0]
    /\ now = 0
    /\ pc = "loaded"
    /\ lastOp = [op |-> "none", result |-> FALSE, repeated |-> FALSE, signal |-> "none",
                 raised |-> FALSE]
    /\ updateCallbacks = <<>>
    /\ calls = <<>>
    /\ session = [store |-> "first", saved |-> <<>>, reloaded |-> FALSE]

\* The awaited fetch settles and update() runs to its end; what saveToCache
\* was given is remembered when it has stored it.
CacheUpdateFinish ==
    /\ pc = "updating"
    /\ \E o \in NotifyFetchOutcomes, saved \in BOOLEAN :
         \E fetched \in {StoreFetchFromGitHub(o)} :
         \E done \in {UpdateSteps(scripts, lastUpdate, cache, updateCallbacks,
                                  fetched, saved, now)} :
            /\ scripts' = done.scripts
            /\ lastUpdate' = done.lastUpdate
            /\ cache' = done.cache
            /\ calls' = done.calls
            /\ lastOp' = [op |-> "update", result |-> ~done.raised,
                          repeated |-> HasRepeatedId(fetched.result),
                          signal |-> fetched.signal, raised |-> done.raised]
            /\ session' = IF saved /\ ~done.raised
                          THEN [session EXCEPT !.saved = done.scripts]
                          ELSE session
    /\ pc' = "loaded"
    /\ UNCHANGED <<now, updateCallbacks, overlap>>
    /\ UNCHANGED <<mergeVars, feedVars, buildVars, normVars, queryVars, uiVars>>

\* loadFromCache() called on the loaded store.
ReloadFromCache ==
    /\ pc = "loaded"
    /\ IF CacheIsFresh(cache, now)
       THEN /\ scripts' = StoreMergeScripts(scripts, cache.scripts)
            /\ lastOp' = [op |-> "loadFromCache", result |-> TRUE,
                          repeated |-> HasRepeatedId(cache.scripts), signal |-> "none",
                          raised |-> FALSE]
            /\ session' = [session EXCEPT !.reloaded = TRUE]
       ELSE /\ UNCHANGED <<scripts, session>>
            /\ lastOp' = [op |-> "loadFromCache", result |-> FALSE, repeated |-> FALSE,
                          signal |-> IF cache.present /\ ~cache.valid THEN "error" ELSE "none",
                          raised |-> FALSE]
    /\ UNCHANGED <<lastUpdate, cache, now, pc, updateCallbacks, calls, overlap>>
    /\ UNCHANGED <<mergeVars, feedVars, buildVars, normVars, queryVars, uiVars>>

\* The page is opened again: new ScriptUpdateManager(); localStorage and the
\* clock are those the first store left.
OpenAgain ==
    /\ pc = "loaded"
    /\ session.store = "first"
    /\ scripts' = <<>>
    /\ lastUpdate' = <<>>
    /\ updateCallbacks' = <<>>
    /\ calls' = <<>>
    /\ lastOp' = [op |-> "none", result |-> FALSE, repeated |-> FALSE, signal |-> "none",
                  raised |-> FALSE]
    /\ pc' = "new"
    /\ session' = [session EXCEPT !.store = "fresh"]
    /\ UNCHANGED <<cache, now, overlap>>
    /\ UNCHANGED <<mergeVars, feedVars, buildVars, normVars, queryVars, uiVars>>

NextCache ==
    \/ Tick \/ UpdateStart \/ CacheUpdateFinish \/ ReloadFromCache \/ OpenAgain
    \/ LoadFromManifest \/ LoadFromCache

SpecCache == InitCache /\ [][NextCache]_vars

(***************************************************************************)
(* SpecOverlap: two update() calls on one loaded store.  A call runs up to *)
(* its awaited fetch, and from the settled fetch to its end, without       *)
(* interruption; the two calls interleave only between these two steps.    *)
(* The manifest may hold records curated by hand, whose lastModified       *)
(* carries a zone offset.                                                  *)
(***************************************************************************)
OverlapManifestRecords == { Rec(i, s, "old") : i \in Ids, s \in {StampEarlyZ, StampAhead} }

IdleCall == [pc |-> "idle", fetched |-> <<>>]

InitOverlap ==
    /\ IdleMerge
    /\ IdleFeed
    /\ IdleBuild
    /\ IdleNorm
    /\ IdleQuery
    /\ IdleUI
    /\ scripts \in Collections(OverlapManifestRecords)
    /\ lastUpdate = <<0>>
    /\ cache = [present |-> FALSE, valid |-> FALSE, scripts |-> <<>>, timestamp |-> 0]
    /\ now = 1
    /\ pc = "loaded"
    /\ lastOp = [op |-> "none", result |-> FALSE, repeated |-> FALSE, signal |-> "none",
                 raised |-> FALSE]
    /\ updateCallbacks = <<>>
    /\ calls = <<>>
    /\ overlap = [before |-> scripts, call |-> <<IdleCall, IdleCall>>, both |-> FALSE]
    /\ session = [store |-> "none", saved |-> <<>>, reloaded |-> FALSE]

\* update() is called and runs up to `await this.fetchFromGitHub()`.
OverlapStart ==
    /\ pc = "loaded"
    /\ \E c \in DOMAIN overlap.call :
         /\ overlap.call[c].pc = "idle"
         /\ overlap' = [overlap EXCEPT
                          !.call[c].pc = "awaiting",
                          !.both = @ \/ \E d \in DOMAIN overlap.call :
                                          d # c /\ overlap.call[d].pc = "awaiting"]
    /\ UNCHANGED session
    /\ UNCHANGED <<mergeVars, storeVars, feedVars, buildVars, normVars, queryVars, uiVars>>

\* The fetch of one of the calls settles and that call runs to its end.
OverlapFinish ==
    /\ pc = "loaded"
    /\ \E c \in DOMAIN overlap.call :
         /\ overlap.call[c].pc = "awaiting"
         /\ \E o \in StoreFetchOutcomes, saved \in BOOLEAN :
            \E fetched \in {StoreFetchFromGitHub(o)} :
            \E done \in {UpdateSteps(scripts, lastUpdate, cache, updateCallbacks,
                                     fetched, saved, now)} :
               /\ scripts' = done.scripts
               /\ lastUpdate' = done.lastUpdate
               /\ cache' = done.cache
               /\ calls' = done.calls
               /\ lastOp' = [op |-> "update", result |-> ~done.raised,
                             repeated |-> HasRepeatedId(fetched.result),
                             signal |-> fetched.signal, raised |-> done.raised]
               /\ overlap' = [overlap EXCEPT !.call[c] =
                                [pc |-> "done", fetched |-> fetched.result]]
    /\ UNCHANGED <<now, pc, updateCallbacks>>
    /\ UNCHANGED session
    /\ UNCHANGED <<mergeVars, feedVars, buildVars, normVars, queryVars, uiVars>>

NextOverlap == OverlapStart \/ OverlapFinish

SpecOverlap == InitOverlap /\ [][NextOverlap]_vars

(***************************************************************************)
(* Properties                                                              *)
(***************************************************************************)
Range(s) == { s[i] : i \in DOMAIN s }

\* The collection a pass started from.
Before(k) == IF k = 1 THEN base ELSE passes[k - 1]

\* a denotes an instant that is not later than the instant of b.
OlderOrEqual(a, b) == ~IsNaN(a) /\ ~IsNaN(b) /\ DateValue(a) <= DateValue(b)

\* a denotes an instant strictly later than the instant of b.
StrictlyLater(a, b) == ~IsNaN(a) /\ ~IsNaN(b) /\ DateValue(a) > DateValue(b)

OccursOnce(batch, id) == Cardinality({ k \in DOMAIN batch : batch[k].id = id }) = 1

\* C1: merge is idempotent: merging the same batch again, any number of
\* times, into the result of the first merge yields the result of the first
\* merge, same records in the same order (both mergeScripts functions; the
\* store's passes are successive update() calls with an unchanged response).
MergeIdempotent == \A k \in DOMAIN passes : passes[k] = passes[1]

\* C1 witness: a batch with a repeated id that changed the base was merged twice.
MergeIdempotentWitness ==
    /\ Len(passes) >= 2
    /\ passes[1] # base
    /\ HasRepeatedId(incoming)
    /\ \E i \in DOMAIN base : passes[1][i] # base[i]

\* C2: no two records of the store's collection share an id, in memory and in
\* the cache entry written from it, after any sequence of loadFromManifest,
\* loadFromCache and update(), batches with repeated ids included.
IdUniqueness == UniqueIds(scripts) /\ UniqueIds(cache.scripts)

\* C2 witness: an update() merged a batch holding the same id more than once
\* into a collection that ended with two records.
IdUniquenessWitness ==
    /\ lastOp.op = "update"
    /\ lastOp.repeated
    /\ Len(scripts) = 2

\* C3: freshness monotonicity: when every record of the batch with the id of an
\* existing record is older than or equal to it (as instants), the existing
\* record is unchanged after the merge, same fields and same position.
FreshnessMonotonic ==
    Len(passes) >= 1 =>
        \A i \in DOMAIN base :
            ( /\ \E k \in DOMAIN incoming : incoming[k].id = base[i].id
              /\ \A k \in DOMAIN incoming :
                    incoming[k].id = base[i].id
                        => OlderOrEqual(incoming[k].lastModified, base[i].lastModified) )
            => passes[1][i] = base[i]

\* C4: an existing record is replaced by the incoming record of the same id
\* exactly when the incoming lastModified denotes a strictly later instant
\* (timestamps, not strings); otherwise, a tie included, it is kept.
ReplacesExactlyWhenLater ==
    Len(passes) >= 1 =>
        \A i \in DOMAIN base : \A k \in DOMAIN incoming :
            (incoming[k].id = base[i].id /\ OccursOnce(incoming, base[i].id))
            => passes[1][i] = IF StrictlyLater(incoming[k].lastModified, base[i].lastModified)
                              THEN incoming[k]
                              ELSE base[i]

\* C5: the pipeline never deletes a record: every id in the store's collection
\* and in the persisted feed file before a step is still there after it.
NeverDeletes ==
    [][ /\ IdsOf(scripts) \subseteq IdsOf(scripts')
        /\ IdsOf(feedFile.repositories) \subseteq IdsOf(feedFile'.repositories) ]_vars

\* C6: for every id, the instant denoted by the lastModified stored under it
\* never decreases from one store state to the next.
LastModifiedNeverDecreases ==
    [][ \A i \in DOMAIN scripts : \A j \in DOMAIN scripts' :
            (scripts[i].id = scripts'[j].id /\ ~IsNaN(scripts[i].lastModified))
            => OlderOrEqual(scripts[i].lastModified, scripts'[j].lastModified) ]_vars

\* C7: merge preserves order: every record of the collection the pass started
\* from keeps its position (under its id, as itself or as a batch record that
\* replaced it in place), and the new ids are appended after them in the order
\* of their first occurrence in the batch.
MergePreservesOrder ==
    \A k \in DOMAIN passes :
        LET prev == Before(k)
            out == passes[k]
            added == (Len(prev) + 1)..Len(out)
        IN /\ Len(out) = Len(prev) + Cardinality(IdsOf(incoming) \ IdsOf(prev))
           /\ \A i \in DOMAIN prev :
                /\ out[i].id = prev[i].id
                /\ out[i] = prev[i] \/ out[i] \in Range(incoming)
           /\ \A i \in added :
                /\ out[i].id \notin IdsOf(prev)
                /\ out[i] \in Range(incoming)
           /\ \A i, j \in added :
                i < j => FindIndex(incoming, out[i].id) < FindIndex(incoming, out[j].id)

\* C7 witness: one merge both appended a new id and, later in the batch,
\* replaced the base record in front of it.
MergePreservesOrderWitness ==
    /\ Len(passes) >= 1
    /\ Len(base) = 1
    /\ Len(passes[1]) = 2
    /\ passes[1][1] # base[1]
    /\ incoming[1].id # base[1].id

\* C8: every successful merge pass of the store (a cache merge that returned
\* true, an update()) sets lastUpdate to the current time.
LastUpdateRefreshedOnMergePass ==
    [][ (pc' = "loaded" /\ pc # "loaded" /\ lastOp'.result
            /\ lastOp'.op \in {"loadFromCache", "update"})
        => lastUpdate' = <<now'>> ]_vars

\* C9: the feed updater deduplicates the fetched batch by id keeping the
\* instance with the newest updated time: every repository it writes is at
\* least as new as every fetched instance of the same id.
DedupKeepsNewest ==
    [][ (fpc = "process" /\ fpc' = "idle")
        => \A r \in Range(feedFile'.repositories) : \A k \in DOMAIN allRepos :
               allRepos[k].id = r.id => OlderOrEqual(allRepos[k].updated_at, r.updated_at) ]_vars

\* C10: a rate-limit response (403) is never raised to the caller of the
\* search request: the request yields an empty result with a warning.
RateLimitNotRaised ==
    lastRequest.kind = "rateLimit"
        => /\ ~lastRequest.raised
           /\ lastRequest.signal = "warn"
           /\ lastRequest.count = 0

\* The normalized repositories of the queries of the log that succeeded, in
\* the order of the log.
RECURSIVE SucceededRepos(_)
SucceededRepos(log) ==
    IF log = <<>> THEN <<>>
    ELSE (IF Head(log).ok THEN MapNormalizeRepo(Head(log).items).records ELSE <<>>)
         \o SucceededRepos(Tail(log))

\* C11: per-query isolation: while the queries are served, what has been
\* collected is exactly the concatenation, in query order, of the normalized
\* repositories of the queries that succeeded, and when the loop is over every
\* query of the configuration has been served, whichever of them failed.
PerQueryIsolation ==
    fpc \in {"request", "await", "delay", "process"}
        => /\ allRepos = SucceededRepos(qLog)
           /\ fpc = "process" => Len(qLog) = NumQueries

\* C11 witness: the first query failed, a later one succeeded with a
\* repository, and the loop is over.
PerQueryIsolationWitness ==
    /\ fpc = "process"
    /\ ~qLog[1].ok
    /\ \E k \in DOMAIN qLog : qLog[k].ok /\ qLog[k].items # <<>>

\* C12: a delay step lies between every two successive requests: the loop
\* gets to the request of a query after the first only out of the delay.
DelayBetweenRequests ==
    [][ (fpc' = "request" /\ fpc # "idle") => fpc = "delay" ]_vars

\* C13: at most one search request is in flight at any time, it is the
\* request of the query after those already answered, and the queries are
\* answered in configuration order, each exactly once.
OneRequestAtATime ==
    /\ Cardinality(inFlight) <= 1
    /\ inFlight \subseteq {Len(qLog) + 1}
    /\ \A k \in DOMAIN qLog : qLog[k].query = k
    /\ Len(qLog) <= NumQueries
    /\ fpc = "await" <=> inFlight # {}

\* C13 witness: the request of the last query is in flight after the first
\* query was answered.
OneRequestAtATimeWitness ==
    /\ inFlight = {NumQueries}
    /\ Len(qLog) = NumQueries - 1
    /\ NumQueries > 1

\* A step in which an update() runs from its settled fetch to its end.
UpdateCompletes == pc = "updating" /\ pc' = "loaded"

\* C14: the stages of update() are ordered fetch, merge, persistence,
\* notification: every callback is handed the collection as the merge left it,
\* runs with the cache entry as update() leaves it (nothing is persisted after
\* a notification), and what update() wrote to the cache is that collection.
UpdateStagesOrdered ==
    [][ UpdateCompletes
        => /\ \A k \in DOMAIN calls' :
                /\ calls'[k].scripts = scripts'
                /\ calls'[k].cacheAtCall = cache'
           /\ cache' # cache => (cache'.scripts = scripts' /\ cache'.timestamp = now) ]_vars

\* C14 witness: an update() merged a fetched record, saved the collection and
\* notified a callback.
UpdateStagesOrderedWitness ==
    /\ pc = "loaded"
    /\ lastOp.op = "update"
    /\ calls # <<>>
    /\ \E i \in DOMAIN scripts : scripts[i].title = "new"
    /\ cache.present /\ cache.scripts = scripts /\ cache.timestamp = now

\* C15: after every update() that completes, every callback registered so
\* far has been called exactly once per registration, in registration order,
\* with the current collection and the new lastUpdate.
CallbacksNotifiedOnce ==
    [][ UpdateCompletes
        => /\ lastUpdate' = <<now>>
           /\ Len(calls') = Len(updateCallbacks)
           /\ \A k \in DOMAIN updateCallbacks :
                /\ calls'[k].cb = updateCallbacks[k].id
                /\ calls'[k].scripts = scripts'
                /\ calls'[k].lastUpdate = lastUpdate' ]_vars

\* C15 witness: an update() has notified two callbacks, `f` registered first.
CallbacksNotifiedOnceWitness ==
    /\ pc = "loaded"
    /\ lastOp.op = "update"
    /\ Len(calls) = 2
    /\ calls[1].cb = "f" /\ calls[2].cb = "g"
    /\ calls[1].lastUpdate = <<now>>

\* C16: a callback that throws stops neither the callbacks registered after
\* it nor update(), which returns the collection.
CallbackFailuresIsolated ==
    [][ (UpdateCompletes /\ \E k \in DOMAIN updateCallbacks : updateCallbacks[k].throws)
        => /\ lastOp'.op = "update" /\ lastOp'.result /\ ~lastOp'.raised
           /\ \A k \in DOMAIN updateCallbacks :
                k \in DOMAIN calls' /\ calls'[k].cb = updateCallbacks[k].id ]_vars

\* C16 witness: the callback that throws was called first and the one
\* registered after it was called too.
CallbackFailuresIsolatedWitness ==
    /\ pc = "loaded"
    /\ lastOp.op = "update"
    /\ Len(updateCallbacks) = 2
    /\ updateCallbacks[1].throws
    /\ Len(calls) = 2
    /\ calls[2].cb = updateCallbacks[2].id

\* C17: cache freshness: loadFromCache returns true exactly when an entry is
\* there, parses, and its age is strictly below the TTL, and then the cached
\* records are merged in; otherwise (stale, missing, unparsable) it returns
\* false and leaves the collection as it was.  The cache entry itself is never
\* modified or deleted by it.
CacheFreshness ==
    [][ (pc = "manifestDone" /\ pc' = "loaded")
        => /\ cache' = cache
           /\ lastOp'.op = "loadFromCache"
           /\ lastOp'.result <=> ( /\ cache.present
                                   /\ cache.valid
                                   /\ now - cache.timestamp < cacheTTL )
           /\ lastOp'.result => ( /\ IdsOf(cache.scripts) \subseteq IdsOf(scripts')
                                  /\ IdsOf(scripts) \subseteq IdsOf(scripts') )
           /\ ~lastOp'.result => scripts' = scripts ]_vars

\* C17 witness: a stale cache entry holding a record was ignored and is still
\* there.
CacheFreshnessWitness ==
    /\ pc = "loaded"
    /\ lastOp.op = "loadFromCache"
    /\ ~lastOp.result
    /\ cache.present /\ cache.valid /\ cache.scripts # <<>>
    /\ now - cache.timestamp >= cacheTTL

UpdateEventuallyCompletes ==
    (pc = "updating") ~> (pc = "loaded" /\ lastOp.op = "update" /\ lastOp.result)

\* C19 witness: an update() whose fetch failed, whose cache write failed and
\* one of whose callbacks threw has completed.
UpdateEventuallyCompletesWitness ==
    /\ pc = "loaded"
    /\ lastOp.op = "update"
    /\ lastOp.result
    /\ lastOp.signal = "error"
    /\ ~cache.present
    /\ \E k \in DOMAIN calls : calls[k].cb = "g"

\* C20: a failure to write the manifest on save is surfaced: a run of the
\* build tool in which saveManifest could not write ends with a non-zero exit
\* status.
SaveFailureSurfaced ==
    buildRun.saved = "false" => buildRun.exit > 0

\* The queries of the log whose request failed otherwise than by the
\* rate-limit status.
FatalFailures(log) ==
    { k \in DOMAIN log : ~log[k].ok /\ log[k].kind \notin {"rateLimit", "typeError"} }

\* C21: command-line exit status: a run of the feed updater in which a search
\* request failed with a fatal fetch error exits non-zero; a run whose only
\* failures are rate-limit responses exits zero, having written the update.
FatalFetchErrorExitsNonZero ==
    (fpc = "idle" /\ feedExit # -1)
        => /\ FatalFailures(qLog) # {} => feedExit > 0
           /\ FatalFailures(qLog) = {} => (feedExit = 0 /\ feedFile.exists)

\* C22: a malformed JSON response body is reported as a fetch failure for
\* that request: the build tool logs it at the error level, so that it can be
\* told from a successful empty result, and it contributes no records.
MalformedBodyReported ==
    buildRun.kind = "malformedBody"
        => /\ buildRun.signal = "error"
           /\ buildRun.saved = "none"

\* The normalized records when the mapping went through.
Normalized == IF normalized.done /\ ~normalized.raised THEN normalized.records ELSE <<>>

\* C23: the canonical id is derived from the upstream id and namespaced by
\* source: every normalizer yields the upstream number behind the prefix of
\* its source, so records of different upstream ids get different ids.
IdNamespacedBySource ==
    \A k \in DOMAIN Normalized :
        /\ Normalized[k].id = PrefixedId("github-", rawResponse[k].id)
        /\ \A j \in DOMAIN Normalized :
              rawResponse[j].id # rawResponse[k].id => Normalized[j].id # Normalized[k].id

\* C24: no normalized record has an empty or absent description: where the
\* upstream description is absent, null or empty the record carries the fixed
\* placeholder, elsewhere the upstream text.
DescriptionNeverEmpty ==
    \A k \in DOMAIN Normalized :
        /\ Normalized[k].description # ""
        /\ Falsy(rawResponse[k].description) => Normalized[k].description = Placeholder
        /\ ~Falsy(rawResponse[k].description)
              => Normalized[k].description = rawResponse[k].description.value

\* C25: the tags of a record of the store or of the build tool are "github",
\* "repository" and then the upstream topics in upstream order, cut to the
\* first 8.
TagsTruncated ==
    normImpl \in {"store", "build"}
        => \A k \in DOMAIN Normalized :
              /\ Len(Normalized[k].tags) <= 8
              /\ Normalized[k].tags
                   = Slice(<<"github", "repository">> \o TopicsOrEmpty(rawResponse[k].topics), 8)

\* C26: normalize never fails: whatever optional fields the records of a
\* response leave out or send as null, each record of the response is
\* normalized and none is lost.
NormalizeNeverFails ==
    normalized.done
        => /\ ~normalized.raised
           /\ Len(normalized.records) = Len(rawResponse)

\* Two characters that are the same letter, whatever their case.
SameLetter(c, d) == ToLowerChar(c) = ToLowerChar(d)

\* The text holds the query at some offset, letter by letter, ignoring case.
ContainsIgnoringCase(t, q) ==
    \E i \in 0..(Len(t) - Len(q)) : \A j \in 1..Len(q) : SameLetter(t[i + j], q[j])

\* The record's title, description or one of its tags holds the query.
Matches(r, q) ==
    \/ ContainsIgnoringCase(r.title, q)
    \/ ContainsIgnoringCase(r.description, q)
    \/ \E k \in DOMAIN r.tags.value : ContainsIgnoringCase(r.tags.value[k], q)

\* `sub` lists, in the order of `s`, exactly the elements of `s` at the
\* positions `keep`.
IsSelection(sub, s, keep) ==
    /\ Len(sub) = Cardinality(keep)
    /\ \A k \in keep : sub[Cardinality({j \in keep : j <= k})] = s[k]

\* C27: search is a case-insensitive substring match: it returns, in
\* collection order, exactly the records whose title, description or some tag
\* holds the query ignoring case, and every query that differs from it only
\* in letter case returns the same.
SearchCaseInsensitive ==
    (answer.done /\ query.op = "search")
        => /\ IsSelection(answer.returned, scripts,
                          { k \in DOMAIN scripts : Matches(scripts[k], query.text) })
           /\ \A q \in Queries :
                 (Len(q) = Len(query.text) /\ \A j \in DOMAIN q : SameLetter(q[j], query.text[j]))
                    => Search(scripts, q) = answer.returned

\* C27 witness: a query with a capital letter was answered with some records
\* of the collection but not all, one of them matched by a tag only.
SearchCaseInsensitiveWitness ==
    /\ answer.done
    /\ query.op = "search"
    /\ \E j \in DOMAIN query.text : query.text[j] \in {"A", "B"}
    /\ answer.returned # <<>>
    /\ Len(answer.returned) < Len(scripts)
    /\ \E k \in DOMAIN answer.returned :
          /\ ~ContainsIgnoringCase(answer.returned[k].title, query.text)
          /\ ~ContainsIgnoringCase(answer.returned[k].description, query.text)

\* Record i of the collection goes before record j in the order of recency:
\* it is later, or as late and earlier in the collection.
MoreRecent(s, i, j) ==
    \/ DateValue(s[i].lastModified) > DateValue(s[j].lastModified)
    \/ /\ DateValue(s[i].lastModified) = DateValue(s[j].lastModified)
       /\ i < j

\* The position in the collection of the record with the id of r.
PositionOf(s, r) == CHOOSE k \in DOMAIN s : s[k].id = r.id

\* C28: recent(limit) returns the min(limit, size) records with the latest
\* lastModified, latest first, records of equal lastModified in their
\* collection order, and leaves the stored collection in its order.
RecentStableSorted ==
    (answer.done /\ query.op = "getRecent")
        => /\ Len(answer.returned)
                = (IF query.limit < Len(answer.before) THEN query.limit ELSE Len(answer.before))
           /\ \A k \in DOMAIN answer.returned : answer.returned[k] \in Range(answer.before)
           /\ \A k, m \in DOMAIN answer.returned :
                 answer.returned[k] = answer.returned[m] => k = m
           /\ \A k \in DOMAIN answer.returned : \A j \in DOMAIN answer.before :
                 \/ MoreRecent(answer.before, PositionOf(answer.before, answer.returned[k]), j)
                 \/ \E m \in 1..k : answer.returned[m] = answer.before[j]
           /\ scripts = answer.before

\* C28 witness: a limit below the size of a collection whose later records
\* are tied and stored after an earlier one, as in [01-01, 01-03, 01-03].
RecentStableSortedWitness ==
    /\ answer.done
    /\ query.op = "getRecent"
    /\ query.limit = 2
    /\ Len(answer.before) = 3
    /\ DateValue(answer.before[2].lastModified) = DateValue(answer.before[3].lastModified)
    /\ answer.before[2].lastModified # answer.before[3].lastModified
    /\ DateValue(answer.before[1].lastModified) < DateValue(answer.before[2].lastModified)
    /\ answer.returned = <<answer.before[2], answer.before[3]>>

\* The sum of the counts of a counting object.
RECURSIVE SumCounts(_)
SumCounts(obj) == IF obj = <<>> THEN 0 ELSE Head(obj).count + SumCounts(Tail(obj))

\* The counting object holds, for each value of the field, the number of
\* records that have it, and nothing else.
CountsExactly(obj, values) ==
    /\ Len(obj) = Cardinality(Range(values))
    /\ \A v \in Range(values) :
          \E i \in DOMAIN obj :
              /\ obj[i].key = v
              /\ obj[i].count = Cardinality({ k \in DOMAIN values : values[k] = v })

\* C29: the counts of stats() are exact: each category and each difficulty
\* is reported with the number of records that have it, the counts of either
\* kind sum to totalScripts, and totalScripts is the size of the collection.
StatsCountsExact ==
    (answer.done /\ query.op = "getStats")
        => /\ answer.returned.totalScripts = Len(scripts)
           /\ CountsExactly(answer.returned.categories,
                            [k \in DOMAIN scripts |-> scripts[k].category])
           /\ CountsExactly(answer.returned.difficulties,
                            [k \in DOMAIN scripts |-> scripts[k].difficulty])
           /\ SumCounts(answer.returned.categories) = answer.returned.totalScripts
           /\ SumCounts(answer.returned.difficulties) = answer.returned.totalScripts

\* The position at which a tag is first met in the collection.
FirstSeen(all, tag) == CHOOSE k \in DOMAIN all : all[k] = tag /\ \A j \in 1..(k - 1) : all[j] # tag

\* C30: topTags lists at most 10 tags, each with its frequency, the more
\* frequent first, and tags of equal frequency in the order in which they are
\* first seen in the collection, whatever the tags look like.
TopTagsOrdered ==
    (answer.done /\ query.op = "getStats")
        => LET top == answer.returned.topTags
               all == AllTags(scripts)
           IN /\ Len(top) <= 10
              /\ \A i \in DOMAIN top :
                    top[i].count = Cardinality({ k \in DOMAIN all : all[k] = top[i].key })
              /\ \A i, j \in DOMAIN top :
                    i < j => \/ top[i].count > top[j].count
                             \/ /\ top[i].count = top[j].count
                                /\ FirstSeen(all, top[i].key) < FirstSeen(all, top[j].key)

\* No value occurs twice in the sequence.
NoRepeats(seq) == \A i, j \in DOMAIN seq : seq[i] = seq[j] => i = j

\* C31: categories() and allTags() return distinct values covering the
\* collection: each category, and each tag, that occurs in some record is
\* returned exactly once and nothing else is; the categories come in
\* first-seen order and the tags in ascending lexicographic order.
DistinctValuesCovered ==
    /\ (answer.done /\ query.op = "getCategories")
         => LET cats == [k \in DOMAIN scripts |-> scripts[k].category] IN
            /\ NoRepeats(answer.returned)
            /\ Range(answer.returned) = Range(cats)
            /\ \A i, j \in DOMAIN answer.returned :
                  i < j => FirstSeen(cats, answer.returned[i]) < FirstSeen(cats, answer.returned[j])
    /\ (answer.done /\ query.op = "getAllTags")
         => /\ NoRepeats(answer.returned)
            /\ Range(answer.returned) = Range(AllTags(scripts))
            /\ \A i, j \in DOMAIN answer.returned :
                  i < j => TextLess(answer.returned[i], answer.returned[j])

\* C31 witness: allTags() has answered on a collection in which a tag occurs
\* twice and the tags are first seen in another order than the sorted one.
DistinctValuesCoveredWitness ==
    /\ answer.done
    /\ query.op = "getAllTags"
    /\ Len(answer.returned) >= 3
    /\ ~NoRepeats(AllTags(scripts))
    /\ answer.returned # SetOf(AllTags(scripts))

\* A step of a listener other than the refresh listener, or a direct call of
\* a query method.
QueryOrViewStep ==
    \/ UIFilterChange \/ UISearchInput \/ UISearchApplied \/ UIPrevPage \/ UINextPage
    \/ UIViewCode \/ UICallQuery

\* C32: every query method (getByCategory, getByTag, getByDifficulty, search,
\* getCategories, getAllTags, getById, getRecent, getStats) and every event
\* of the feed controller other than refresh (filter change, search input,
\* applied search, next and previous page, view code) leaves this.scripts as
\* it was: the same records in the same order.
QueriesAndEventsKeepCollection == [][scripts' # scripts => ~QueryOrViewStep]_vars

\* Filtered by a search, on the second page, a code modal opened and no
\* update() pending.
QueriesAndEventsKeepCollectionWitness ==
    /\ pc = "loaded" /\ rendered # NothingRendered
    /\ currentFilter.type = "search"
    /\ currentPage = 2
    /\ modal
    /\ pendingUpdates = 0
    /\ Len(scripts) > 1

\* How many records match the active filter, and the last page they fill.
MatchingCount == Len(GetFilteredScripts(scripts, currentFilter).list)

LastPage ==
    IF MatchingCount = 0 THEN 1
    ELSE CHOOSE p \in 1..MatchingCount :
            /\ p * ItemsPerPage >= MatchingCount
            /\ (p - 1) * ItemsPerPage < MatchingCount

\* C33: whatever next, previous, filter, search and refresh events have
\* happened, currentPage lies in 1..max(1, ceil(n / itemsPerPage)), n being
\* the number of records that match the active filter, so the page rendered
\* is never past the end of the filtered list.
PageWithinBounds ==
    rendered # NothingRendered =>
        /\ currentPage \in 1..LastPage
        /\ MatchingCount > 0 => rendered.items # <<>>

\* The record passes the one filter f.
PassesFilter(r, f) ==
    CASE f.type = "category"   -> r.category = f.value
      [] f.type = "difficulty" -> r.difficulty = f.value
      [] f.type = "search"     -> Matches(r, f.value)
      [] OTHER                 -> TRUE

\* A filter a listener may leave: none, or one of one type with a value that
\* is not empty, and for a search not blank at either end.
OneFilter(f, types) ==
    \/ f = NoFilter
    \/ /\ f.type \in types
       /\ f.value # <<>>
       /\ f.type = "search" => f.value[1] # " " /\ f.value[Len(f.value)] # " "

\* The container shows the first page of exactly the records of s that pass f.
ShowsFirstPageOf(view, s, f) ==
    LET keep == { k \in DOMAIN s : PassesFilter(s[k], f) }
        first == { k \in keep : Cardinality({ j \in keep : j <= k }) <= ItemsPerPage }
    IN /\ view.count = Cardinality(keep)
       /\ IsSelection(view.items, [k \in DOMAIN s |-> s[k].id], first)

\* C34: every change of a filter select and every applied search input sets
\* currentPage to 1 and leaves one filter at most, the one of the event: a
\* category or difficulty filter after a select change, a search filter after
\* a search, and no filter when the value is empty (for a search, empty once
\* trimmed), in which case the whole collection is shown.
FilterEventResetsPage ==
    [][ /\ UIFilterChange => OneFilter(currentFilter', {"category", "difficulty"})
        /\ UISearchApplied => OneFilter(currentFilter', {"search"})
        /\ (UIFilterChange \/ UISearchApplied) =>
              /\ currentPage' = 1
              /\ ShowsFirstPageOf(rendered', scripts', currentFilter')
              /\ currentFilter' = NoFilter => rendered'.count = Len(scripts') ]_vars

\* A search was applied, while an update() was pending, on a collection it
\* matches more than once: its first page is shown.
FilterEventResetsPageWitness ==
    /\ rendered # NothingRendered
    /\ currentPage = 1
    /\ currentFilter.type = "search"
    /\ rendered.count > 1
    /\ rendered.pagination.shown
    /\ pendingUpdates = 1

\* C35: while an update() started by the refresh button awaits its fetch, the
\* refresh button of the container is disabled, whatever filter, search and
\* page events happen meanwhile, so no second update() is started before the
\* first has completed.
RefreshDisabledWhilePending ==
    /\ pendingUpdates > 0 => refreshDisabled
    /\ pendingUpdates <= 1

\* Both update() calls awaited their fetch at the same time and both have
\* completed.
BothCallsDone ==
    /\ overlap.both
    /\ \A c \in DOMAIN overlap.call : overlap.call[c].pc = "done"

\* The collection holds, for the id of the fetched record f, a record whose
\* instant is not before that of f.
HoldsAtLeastAsNew(s, f) ==
    \E k \in DOMAIN s :
        /\ s[k].id = f.id
        /\ DateValue(s[k].lastModified) >= DateValue(f.lastModified)

\* After two overlapping update() calls ids are unique and no id the
\* collection held before either call is missing.
OverlapKeepsCollection ==
    BothCallsDone =>
        /\ UniqueIds(scripts)
        /\ IdsOf(overlap.before) \subseteq IdsOf(scripts)

\* C36: after two overlapping update() calls, however their two halves
\* interleave, the collection has unique ids, still holds every id it held
\* before either call, and holds for each id a record at least as new as
\* the newest record either call fetched for it.
OverlapKeepsNewest ==
    BothCallsDone =>
        /\ OverlapKeepsCollection
        /\ \A c \in DOMAIN overlap.call :
             \A k \in DOMAIN overlap.call[c].fetched :
                HoldsAtLeastAsNew(scripts, overlap.call[c].fetched[k])

\* The file lists each id once, newest first, holds at most CONFIG.limit
\* repositories, all of them collected, none left out while there is room,
\* and counts them in total_count.
FeedFileShape(file, collected) ==
    /\ file.exists
    /\ UniqueIds(file.repositories)
    /\ \A j, k \in DOMAIN file.repositories :
          j < k => DateValue(file.repositories[j].updated_at)
                     >= DateValue(file.repositories[k].updated_at)
    /\ Len(file.repositories) <= FeedLimit
    /\ \A k \in DOMAIN file.repositories :
          \E j \in DOMAIN collected : collected[j] = file.repositories[k]
    /\ Len(file.repositories) < FeedLimit => IdsOf(collected) \subseteq IdsOf(file.repositories)
    /\ file.total_count = Len(file.repositories)

\* No repository left out of the file was seen updated later than one that
\* is in it.
HoldsMostRecent(file, collected) ==
    \A k \in DOMAIN file.repositories, j \in DOMAIN collected :
        collected[j].id \notin IdsOf(file.repositories) =>
            DateValue(file.repositories[k].updated_at) >= DateValue(collected[j].updated_at)

FeedFileShaped == [][FeedProcess => FeedFileShape(feedFile', allRepos)]_vars

\* C37: whatever the queries returned, the feed file written by updateFeed
\* lists no id twice, is ordered by updated_at descending, holds at most
\* CONFIG.limit repositories, which are the most recently updated ones among
\* those returned, and has total_count equal to the number written.
FeedFileWellFormed ==
    [][FeedProcess => /\ FeedFileShape(feedFile', allRepos)
                      /\ HoldsMostRecent(feedFile', allRepos)]_vars

\* The cache entry was saved by an update() of the first store and its age
\* is below the TTL.
SavedAndWithinTTL ==
    /\ cache.present /\ cache.valid
    /\ now - cache.timestamp < cacheTTL

\* C38: once update() has saved the collection to the cache, a loadFromCache
\* within the TTL on the same store returns true and leaves the collection
\* as it is, and on a fresh store whose manifest was empty it returns true
\* and leaves exactly the saved records, in the order they were saved in.
CacheRoundTrip ==
    [][ /\ (ReloadFromCache /\ SavedAndWithinTTL) =>
              /\ lastOp'.result
              /\ scripts' = scripts
        /\ (LoadFromCache /\ session.store = "fresh" /\ scripts = <<>> /\ SavedAndWithinTTL) =>
              /\ lastOp'.result
              /\ scripts' = session.saved ]_vars

\* The first store reloaded its cache entry; then a fresh store with an
\* empty manifest loaded the two records saved, one of them without a
\* lastModified.
CacheRoundTripWitness ==
    /\ session.store = "fresh"
    /\ session.reloaded
    /\ pc = "loaded"
    /\ lastOp.op = "loadFromCache" /\ lastOp.result
    /\ Len(session.saved) = 2
    /\ scripts = session.saved
    /\ \E k \in DOMAIN scripts : IsNaN(scripts[k].lastModified)
    /\ \E k \in DOMAIN scripts : scripts[k].title = "new"
====
